---------------------------- MODULE Spec2Model ----------------------------
(***************************************************************************)
(* A model of the CEVRP solver: the Max-Min Ant System that builds         *)
(* customer-only routes (src/MMAS), the ALNS phase that splices charging   *)
(* stations and destroys/repairs the solution (src/ALNS_METAHEURISTIC),    *)
(* and the graph and energy queries both rest on (src/Shared).             *)
(*                                                                         *)
(* Node keys are strings, the depot is "1".  The instances used lie on a   *)
(* line, so every Euclidean distance is an integer and the float           *)
(* arithmetic of the source on costs and energies is exact.                *)
(***************************************************************************)
EXTENDS Integers, Sequences, FiniteSets, TLC

VARIABLES
    cevrp,       \* the instance being solved (the parsed CEVRP record)
    \* ---- ALNS phase (make_alns and the engine's iterate loop)
    pcA,               \* "start" | "select" | "destroyed" | "repaired" | "done" | "crashed"
    destroy_operators, \* names of the registered destroy operators
    repair_operators,  \* names of the registered repair operators
    curr,              \* the engine's current solution
    best,              \* the engine's best solution
    destroyed,         \* what the destroy operator returned
    cand,              \* what the repair operator returned: <<>> (None) or <<state>>
    iteration,         \* iterations completed (MaxIterations' counter)
    init_obj,          \* initial_state.objective(), fixes the acceptance thresholds
    d_name,            \* the destroy operator of the running iteration
    r_name,            \* the repair operator of the running iteration
    ls_name,           \* the local search apply_local_search drew last ("" if none)
    twin,              \* the best state of a second solve of the same instance with the same
                       \* seed, while the two are known to run in step: <<>> (None) or <<state>>
    \* ---- harness of the pure energy function
    pcE,         \* "input" | "done"
    nodes_in,    \* the node sequence handed to calculate_path_energy
    energy_out,  \* what calculate_path_energy returned for nodes_in
    \* ---- harness of CevrpState.copy
    pcC,         \* "built" | "copied"
    heap,        \* the objects allocated so far, an object's reference is its index
    s_ref,       \* the state copy() is called on
    c_ref,       \* the state copy() returned (0 before the call)
    s_before,    \* what s held when copy() was called: <<>> (None) or <<value>>
    mutations,   \* writes made through c since the copy
    \* ---- harness of the functions called on their own
    pcF,         \* "input" | "done"
    call,        \* the call: the function's name and its arguments
    ret,         \* what the call returned
    \* ---- MMAS phase (ACO.find_shortest_path)
    pcM,          \* "iterate" | "forward" | "update" | "backward" | "found" | "return" | "done" | "crashed"
    pheromones,   \* the 'pheromones' attribute of every edge, an exact rational <<n, d>>
    aco,          \* the ACO object's fields that change (best and second-best paths and costs, the improvement counters)
    aco_iteration, \* iterations of _deploy_search_ants' loop started so far
    search_ants,  \* ACO.search_ants, the ants of the running iteration
    ant_i,        \* the ant being explored (forward) or deposited (backward), 1-based
    steps,        \* iterations of _ant_exploration's loop completed for that ant
    expired,      \* what current_time >= self.exec_time gave at the last poll
    solution,     \* what _get_best_solution_found returned
    process,      \* main's outcome: what it printed for NoSolutionFoundError, whether
                  \* solve_with_alns was called, the exit status (-1 while running)
    \* ---- observers of the MMAS phase (no field of the program)
    deposits,     \* calls of deposit_pheromones_on_paths so far
    improved,     \* the ants of the running iteration that covered the graph with valid
                  \* paths at a cost below the best or second-best cost of that moment
    no_improve    \* consecutive completed iterations that did not lower the best found cost, and that cost

alnsVars == <<pcA, destroy_operators, repair_operators, curr, best, destroyed,
              cand, iteration, init_obj, d_name, r_name, ls_name, twin>>
pureVars == <<pcE, nodes_in, energy_out>>
copyVars == <<pcC, heap, s_ref, c_ref, s_before, mutations>>
callVars == <<pcF, call, ret>>
mmasVars == <<pcM, pheromones, aco, aco_iteration, search_ants, ant_i, steps, expired,
              solution, process, deposits, improved, no_improve>>
vars == <<cevrp, alnsVars, pureVars, copyVars, callVars, mmasVars>>

-----------------------------------------------------------------------------
(* Bounds of the model. *)

\* longest node sequence handed to the pure energy function
MaxLen == 5

\* num_iterations handed to make_alns (config.alns_iterations)
NumIterations == 2

\* num_iterations of the MMAS loop (config.num_iterations)
NumAcoIterations == 4

\* num_ants (config.num_ants)
NumAnts == 2

\* max_ant_steps (config.max_ant_steps)
MaxAntSteps == 10

\* max_iteration_improvement handed to ACO (compute_execution_params' max_no_improve)
MaxNoImprove == 2

\* writes made through a copy before the original is read again
MaxMutations == 2

-----------------------------------------------------------------------------
(* Instances: CEVRP records (src/Shared/cevrp.py) with their coordinates,  *)
(* and for the ALNS phase the customer-only routes the MMAS phase and its  *)
(* local search handed over.                                               *)

DEFAULT_SOURCE_NODE == "1"

\* Nodes lie on a line, so that every distance is an integer.
\* Instance 1: depot at 0, customers "2","3","4", stations "5","6".
Instances ==
    << [ pos       |-> ("1" :> 0 @@ "2" :> 4 @@ "3" :> 7 @@ "4" :> 9 @@ "5" :> 5 @@ "6" :> 2),
         demand    |-> ("1" :> 0 @@ "2" :> 2 @@ "3" :> 2 @@ "4" :> 2 @@ "5" :> 0 @@ "6" :> 0),
         charging_stations |-> <<"5", "6">>,
         capacity  |-> 6,
         energy_capacity |-> 8,
         energy_consumption |-> 1,
         vehicles  |-> 1,
         optimal_value |-> 18,
         routes    |-> << <<"1", "2", "3", "4", "1">> >> ],
       \* Instance 2: instance 1 with a second route on the other side of the depot
       [ pos       |-> ("1" :> 0 @@ "2" :> 4 @@ "3" :> 7 @@ "4" :> 9 @@ "5" :> 5 @@ "6" :> 2
                        @@ "7" :> -1 @@ "8" :> -2 @@ "9" :> -3),
         demand    |-> ("1" :> 0 @@ "2" :> 2 @@ "3" :> 2 @@ "4" :> 2 @@ "5" :> 0 @@ "6" :> 0
                        @@ "7" :> 2 @@ "8" :> 2 @@ "9" :> 2),
         charging_stations |-> <<"5", "6">>,
         capacity  |-> 6,
         energy_capacity |-> 8,
         energy_consumption |-> 1,
         vehicles  |-> 2,
         optimal_value |-> 24,
         routes    |-> << <<"1", "2", "3", "4", "1">>, <<"1", "7", "8", "9", "1">> >> ],
       \* Instance 3: one station "7" at 4 and five customers beyond and before it;
       \* the route is the shortest tour, and no station is within reach of "2"
       [ pos       |-> ("1" :> 0 @@ "2" :> 8 @@ "3" :> 7 @@ "4" :> 6 @@ "5" :> 5 @@ "6" :> 3
                        @@ "7" :> 4),
         demand    |-> ("1" :> 0 @@ "2" :> 1 @@ "3" :> 1 @@ "4" :> 1 @@ "5" :> 1 @@ "6" :> 1
                        @@ "7" :> 0),
         charging_stations |-> <<"7">>,
         capacity  |-> 5,
         energy_capacity |-> 8,
         energy_consumption |-> 1,
         vehicles  |-> 1,
         optimal_value |-> 16,
         routes    |-> << <<"1", "2", "3", "4", "5", "6", "1">> >> ] >>

GraphNodes == DOMAIN cevrp.pos

\* set(state.cevrp.charging_stations)
StationSet == { cevrp.charging_stations[i] : i \in DOMAIN cevrp.charging_stations }

Customers == { n \in GraphNodes : n # DEFAULT_SOURCE_NODE /\ n \notin StationSet }

Abs(x) == IF x < 0 THEN -x ELSE x

-----------------------------------------------------------------------------
(* GraphApi (src/Shared/graph_api.py). *)

\* build_graph adds an edge for every ordered pair of distinct node keys.
has_edge(u, v) == u \in GraphNodes /\ v \in GraphNodes /\ u # v

get_edge_cost(u, v) ==
    IF has_edge(u, v) THEN Abs(cevrp.pos[u] - cevrp.pos[v]) ELSE 0

get_demand_node(n) == cevrp.demand[n]

RECURSIVE calculate_path_cost(_)
calculate_path_cost(nodes) ==
    IF Len(nodes) < 2 THEN 0
    ELSE get_edge_cost(nodes[1], nodes[2]) + calculate_path_cost(Tail(nodes))

RECURSIVE get_total_demand_path(_)
get_total_demand_path(nodes) ==
    IF nodes = <<>> THEN 0
    ELSE get_demand_node(Head(nodes)) + get_total_demand_path(Tail(nodes))

calculate_edge_energy_consumption(u, v) ==
    get_edge_cost(u, v) * cevrp.energy_consumption

\* the whole path's cost times h, with no reset anywhere
calculate_path_energy_consumption(nodes) ==
    calculate_path_cost(nodes) * cevrp.energy_consumption

-----------------------------------------------------------------------------
(* CevrpState.calculate_path_energy (src/ALNS_METAHEURISTIC/solution_state.py) *)

\* the fold of the for loop: energy restarts at the edge that leaves a station
RECURSIVE PathEnergyFold(_, _, _)
PathEnergyFold(nodes, i, energy) ==
    IF i >= Len(nodes) THEN energy
    ELSE LET e == calculate_edge_energy_consumption(nodes[i], nodes[i + 1])
         IN PathEnergyFold(nodes, i + 1,
                IF nodes[i] \in StationSet THEN e ELSE energy + e)

calculate_path_energy(nodes) == PathEnergyFold(nodes, 1, 0)

-----------------------------------------------------------------------------
(* The energy of a node sequence as the data model defines it: the largest *)
(* sum of edge energies between two consecutive anchors (depot or station  *)
(* visits).  Used only to state claims.                                    *)

IsAnchor(n) == n = DEFAULT_SOURCE_NODE \/ n \in StationSet

Max2(a, b) == IF a >= b THEN a ELSE b

RECURSIVE MaxSegmentFold(_, _, _, _)
MaxSegmentFold(nodes, i, running, top) ==
    IF i >= Len(nodes) THEN top
    ELSE LET e == calculate_edge_energy_consumption(nodes[i], nodes[i + 1])
             r == IF IsAnchor(nodes[i]) THEN e ELSE running + e
         IN MaxSegmentFold(nodes, i + 1, r, Max2(top, r))

MaxSegmentEnergy(nodes) == MaxSegmentFold(nodes, 1, 0, 0)

-----------------------------------------------------------------------------
(* Python list operations, with Python's 0-based indices, so that the      *)
(* index arithmetic of the operators reads as in the source.               *)

At(s, k) == s[k + 1]

Last(s) == s[Len(s)]

\* s[a:b]
Slice(s, a, b) == SubSeq(s, a + 1, b)

\* s[a:]
From(s, a) == SubSeq(s, a + 1, Len(s))

\* s.insert(k, x), 0 <= k <= len(s)
InsertAt(s, k, x) == Slice(s, 0, k) \o <<x>> \o From(s, k)

\* s without its element of index k (s.pop(k))
PopAt(s, k) == Slice(s, 0, k) \o From(s, k + 1)

Range(s) == { s[i] : i \in DOMAIN s }

RECURSIVE Concat(_)
Concat(ss) == IF ss = <<>> THEN <<>> ELSE Head(ss) \o Concat(Tail(ss))

\* the ordered samples of m elements of S drawn without replacement
RECURSIVE Arrangements(_, _)
Arrangements(S, m) ==
    IF m = 0 THEN { <<>> }
    ELSE UNION { { <<x>> \o p : p \in Arrangements(S \ {x}, m - 1) } : x \in S }

\* the sequences that choose one element of each set of a sequence of sets
RECURSIVE SeqProduct(_)
SeqProduct(ss) ==
    IF ss = <<>> THEN { <<>> }
    ELSE { <<x>> \o r : x \in Head(ss), r \in SeqProduct(Tail(ss)) }

-----------------------------------------------------------------------------
(* Path (src/Shared/path.py) and CevrpState (solution_state.py).           *)

Path(nodes, path_cost, demand, energy, feasible) ==
    [ nodes |-> nodes, path_cost |-> path_cost, demand |-> demand,
      energy |-> energy, feasible |-> feasible ]

\* Optional[CevrpState]: None is the empty sequence, a state s is <<s>>
None == <<>>

Some(s) == <<s>>

CevrpState(paths, unassigned, previous_state) ==
    [ paths |-> paths, unassigned |-> unassigned, previous_state |-> previous_state ]

\* GraphApi.calculate_paths_cost: the sum of the STORED path costs
RECURSIVE calculate_paths_cost(_)
calculate_paths_cost(paths) ==
    IF paths = <<>> THEN 0
    ELSE Head(paths).path_cost + calculate_paths_cost(Tail(paths))

objective(state) == calculate_paths_cost(state.paths)

\* is_path_connected is called by the operators but not defined by GraphApi
\* in this tree: every consecutive pair of the path is joined by an edge.
is_path_connected(nodes) ==
    \A i \in 1..(Len(nodes) - 1) : has_edge(nodes[i], nodes[i + 1])

are_paths_depot_constrained(paths) ==
    \A k \in DOMAIN paths :
        /\ paths[k].nodes # <<>>
        /\ paths[k].nodes[1] = DEFAULT_SOURCE_NODE
        /\ Last(paths[k].nodes) = DEFAULT_SOURCE_NODE

-----------------------------------------------------------------------------
(* repair_functions.py: the station splice run once by make_alns.          *)

\* find_best_charging_station returns None when no station qualifies
NoStation == ""

RECURSIVE FindStationFold(_, _, _, _)
FindStationFold(k, last_node, current_energy, best_station) ==
    IF k > Len(cevrp.charging_stations) THEN best_station
    ELSE LET station == cevrp.charging_stations[k]
             better ==
                 /\ station # last_node
                 /\ current_energy + calculate_edge_energy_consumption(last_node, station)
                        < cevrp.energy_capacity
                 /\ \/ best_station = NoStation
                    \/ get_edge_cost(last_node, station) < get_edge_cost(last_node, best_station)
         IN FindStationFold(k + 1, last_node, current_energy,
                            IF better THEN station ELSE best_station)

find_best_charging_station(last_node, current_energy) ==
    FindStationFold(1, last_node, current_energy, NoStation)

\* the inner for loop over the interior nodes of one path
RECURSIVE SpliceFold(_, _, _, _)
SpliceFold(nodes, i, modified_nodes, energy_used) ==
    IF i >= Len(nodes) - 1 THEN [ nodes |-> modified_nodes, energy |-> energy_used ]
    ELSE LET current_node == At(nodes, i)
             prev_node == Last(modified_nodes)
             e == energy_used + calculate_edge_energy_consumption(prev_node, current_node)
             best_station == find_best_charging_station(current_node, e)
         IN IF best_station # NoStation
            THEN SpliceFold(nodes, i + 1, modified_nodes \o <<current_node, best_station>>, 0)
            ELSE SpliceFold(nodes, i + 1, Append(modified_nodes, current_node), e)

SplicePath(path) ==
    LET r == SpliceFold(path.nodes, 1, <<path.nodes[1]>>, 0)
        depot == Last(path.nodes)
        energy_used == r.energy + calculate_edge_energy_consumption(Last(r.nodes), depot)
        modified_nodes == Append(r.nodes, depot)
    IN Path(modified_nodes, calculate_path_cost(modified_nodes),
            get_total_demand_path(modified_nodes), energy_used,
            energy_used <= cevrp.energy_capacity)

insert_charging_stations_after_each_node(state) ==
    [ state EXCEPT !.paths = [ k \in DOMAIN state.paths |-> SplicePath(state.paths[k]) ] ]

-----------------------------------------------------------------------------
(* destroy_functions.py *)

is_path_valid(nodes) ==
    /\ nodes[1] = DEFAULT_SOURCE_NODE
    /\ Last(nodes) = DEFAULT_SOURCE_NODE
    /\ get_total_demand_path(nodes) <= cevrp.capacity
    /\ calculate_path_energy(nodes) <= cevrp.energy_capacity

\* the Path update_path leaves behind
update_path(new_nodes) ==
    Path(new_nodes, calculate_path_cost(new_nodes), get_total_demand_path(new_nodes),
         calculate_path_energy(new_nodes), is_path_valid(new_nodes))

IsCustomer(n) == n \notin StationSet /\ n # DEFAULT_SOURCE_NODE

CustomersOf(nodes) == SelectSeq(nodes, IsCustomer)

\* the (distance, route) candidates in the order the three loops visit them
ClosestCandidates(removed_nodes, paths) ==
    Concat([ r \in DOMAIN removed_nodes |->
        Concat([ k \in DOMAIN paths |->
            IF paths[k].nodes = <<DEFAULT_SOURCE_NODE>> THEN <<>>
            ELSE LET cs == CustomersOf(paths[k].nodes)
                 IN [ j \in DOMAIN cs |->
                        [ route |-> k,
                          distance |-> Abs(cevrp.pos[removed_nodes[r]] - cevrp.pos[cs[j]]) ] ] ]) ])

\* index of the route find_closest_customer returns, 0 for None
find_closest_customer(removed_nodes, paths) ==
    LET c == ClosestCandidates(removed_nodes, paths)
    IN IF c = <<>> THEN 0
       ELSE c[CHOOSE i \in DOMAIN c :
                 /\ \A j \in DOMAIN c : c[i].distance <= c[j].distance
                 /\ \A j \in 1..(i - 1) : c[j].distance > c[i].distance].route

-----------------------------------------------------------------------------
(* CevrpState.copy and Path.copy on a heap of objects.  An object is known *)
(* by its reference, its index in the heap; a CevrpState holds references  *)
(* to its list of routes and its list of unassigned nodes, a Path holds a  *)
(* reference to its list of nodes, and numbers, booleans and strings are   *)
(* immutable values held in place.                                         *)

StrList(items) == [ kind |-> "list", items |-> items ]

RefList(refs) == [ kind |-> "list", refs |-> refs ]

\* Path(nodes=..., path_cost=..., ...) over a list object already on the heap
AllocPath(h, nodes_ref, path_cost, demand, energy, feasible) ==
    Append(h, [ kind |-> "Path", nodes |-> nodes_ref, path_cost |-> path_cost,
                demand |-> demand, energy |-> energy, feasible |-> feasible ])

\* Path.copy with nodes=self.nodes in place of copy.deepcopy(self.nodes)
PathCopyShared(h, p) ==
    AllocPath(h, h[p].nodes, h[p].path_cost, h[p].demand, h[p].energy, h[p].feasible)

\* Path.copy: the new Path is the last object of the heap returned
PathCopy(h, p) ==
    AllocPath(Append(h, StrList(h[h[p].nodes].items)), Len(h) + 1,
            h[p].path_cost, h[p].demand, h[p].energy, h[p].feasible)

\* [path.copy() for path in self.paths]
RECURSIVE CopyPaths(_, _, _)
CopyPaths(h, todo, refs) ==
    IF todo = <<>> THEN [ heap |-> h, refs |-> refs ]
    ELSE CopyPaths(PathCopy(h, Head(todo)), Tail(todo),
                   Append(refs, Len(PathCopy(h, Head(todo)))))

\* CevrpState(paths, unassigned, previous_state=...) over copied routes
AllocState(h, path_refs, unassigned, previous_state) ==
    Append(Append(Append(h, RefList(path_refs)), StrList(unassigned)),
           [ kind |-> "CevrpState", paths |-> Len(h) + 1, unassigned |-> Len(h) + 2,
             previous_state |-> previous_state ])

\* CevrpState.copy with unassigned=self.unassigned in place of
\* copy.deepcopy(self.unassigned)
StateCopySharedUnassigned(h, s) ==
    Append(Append(CopyPaths(h, h[h[s].paths].refs, <<>>).heap,
                  RefList(CopyPaths(h, h[h[s].paths].refs, <<>>).refs)),
           [ kind |-> "CevrpState",
             paths |-> Len(CopyPaths(h, h[h[s].paths].refs, <<>>).heap) + 1,
             unassigned |-> h[s].unassigned, previous_state |-> h[s].previous_state ])

\* CevrpState.copy: the new state is the last object of the heap returned
StateCopy(h, s) ==
    AllocState(CopyPaths(h, h[h[s].paths].refs, <<>>).heap,
             CopyPaths(h, h[h[s].paths].refs, <<>>).refs,
             h[h[s].unassigned].items, h[s].previous_state)

\* the routes and the unassigned nodes one reads through the reference s
Deref(h, s) ==
    [ paths |-> [ k \in DOMAIN h[h[s].paths].refs |->
                    Path(h[h[h[h[s].paths].refs[k]].nodes].items,
                         h[h[h[s].paths].refs[k]].path_cost,
                         h[h[h[s].paths].refs[k]].demand,
                         h[h[h[s].paths].refs[k]].energy,
                         h[h[h[s].paths].refs[k]].feasible) ],
      unassigned |-> h[h[s].unassigned].items,
      previous_state |-> None ]

\* a state made route by route, every list a new object
RECURSIVE BuildPaths(_, _, _)
BuildPaths(h, paths, refs) ==
    IF paths = <<>> THEN [ heap |-> h, refs |-> refs ]
    ELSE BuildPaths(AllocPath(Append(h, StrList(Head(paths).nodes)), Len(h) + 1,
                            Head(paths).path_cost, Head(paths).demand,
                            Head(paths).energy, Head(paths).feasible),
                    Tail(paths), Append(refs, Len(h) + 2))

BuildState(state) ==
    AllocState(BuildPaths(<<>>, state.paths, <<>>).heap,
             BuildPaths(<<>>, state.paths, <<>>).refs, state.unassigned, 0)

CopyIdle ==
    /\ pcC = "idle"
    /\ heap = <<>>
    /\ s_ref = 0
    /\ c_ref = 0
    /\ s_before = None
    /\ mutations = 0

\* the values of the call harness' variables while another phase is explored
CallIdle ==
    /\ pcF = "idle"
    /\ call = <<>>
    /\ ret = <<>>

-----------------------------------------------------------------------------
(* destroy_operators.py.  An operator that draws from the rng, or whose    *)
(* result depends on the iteration order of a Python set, is the set of    *)
(* the states it can return.                                               *)

\* ---- remove_overcapacity_nodes

\* the walk along one path: stops, dropping the node it stands on, at the
\* first edge that would take the energy since the last station above B
RECURSIVE OvercapWalk(_, _, _, _)
OvercapWalk(nodes, i, valid_nodes, energy_consumption) ==
    IF i >= Len(nodes) - 1
    THEN [ valid_nodes |-> valid_nodes, energy |-> energy_consumption ]
    ELSE LET current_node == At(nodes, i)
             next_node == At(nodes, i + 1)
             e == IF current_node \in StationSet THEN 0 ELSE energy_consumption
             additional_energy == calculate_edge_energy_consumption(current_node, next_node)
         IN IF e + additional_energy > cevrp.energy_capacity
            THEN [ valid_nodes |-> Slice(valid_nodes, 0, Len(valid_nodes) - 1), energy |-> e ]
            ELSE OvercapWalk(nodes, i + 1, Append(valid_nodes, next_node), e + additional_energy)

\* the nodes one path adds to the unassigned set
OvercapUnassigned(path) ==
    IF Len(path.nodes) <= 3
    THEN { n \in Range(path.nodes) : n # DEFAULT_SOURCE_NODE }
    ELSE LET w == OvercapWalk(path.nodes, 0, <<path.nodes[1]>>, 0)
         IN { n \in Range(From(path.nodes, Len(w.valid_nodes))) : IsCustomer(n) }

\* the path (if any) one path leaves in new_paths
OvercapValidPath(path) ==
    IF Len(path.nodes) <= 3 THEN <<>>
    ELSE LET w == OvercapWalk(path.nodes, 0, <<path.nodes[1]>>, 0)
             valid_nodes == w.valid_nodes
         IN IF Len(valid_nodes) > 1
            THEN << Path(valid_nodes, calculate_path_cost(valid_nodes),
                         get_total_demand_path(valid_nodes), w.energy,
                         /\ valid_nodes[1] = DEFAULT_SOURCE_NODE
                         /\ Last(valid_nodes) = DEFAULT_SOURCE_NODE
                         /\ Len(valid_nodes) > 2) >>
            ELSE <<>>

\* raises ValueError when the state has fewer than two paths
OvercapRaises(state) == Len(state.paths) < 2

remove_overcapacity_nodes(state) ==
    LET new_paths == Concat([ k \in DOMAIN state.paths |-> OvercapValidPath(state.paths[k]) ])
        unassigned == (Range(state.unassigned)
                         \cup UNION { OvercapUnassigned(state.paths[k]) : k \in DOMAIN state.paths })
                      \ StationSet
    IN { CevrpState(new_paths, u, None) : u \in Arrangements(unassigned, Cardinality(unassigned)) }

\* ---- remove_charging_station

\* the energy recomputation over modified_nodes, with its early break
RECURSIVE StationWalk(_, _, _)
StationWalk(nodes, i, energy_used) ==
    IF i >= Len(nodes) - 1 THEN [ energy |-> energy_used, feasible |-> TRUE ]
    ELSE LET e == (IF At(nodes, i) \in StationSet THEN 0 ELSE energy_used)
                    + calculate_edge_energy_consumption(At(nodes, i), At(nodes, i + 1))
         IN IF e > cevrp.energy_capacity
            THEN [ energy |-> e, feasible |-> FALSE ]
            ELSE StationWalk(nodes, i + 1, e)

\* what the loop body appends to modified_paths once index_to_remove is drawn
RemoveStationAt(path, index_to_remove) ==
    LET nodes == path.nodes
        modified_nodes == PopAt(nodes, index_to_remove)
        w == StationWalk(modified_nodes, 0, 0)
    IN IF /\ 0 < index_to_remove /\ index_to_remove < Len(nodes) - 1
          /\ ~has_edge(At(nodes, index_to_remove - 1), At(nodes, index_to_remove + 1))
       THEN path
       ELSE IF ~is_path_connected(modified_nodes) THEN path
       ELSE IF w.feasible
            THEN Path(modified_nodes, calculate_path_cost(modified_nodes),
                      get_total_demand_path(modified_nodes), w.energy, TRUE)
            ELSE path

RemoveStationOutcomes(path) ==
    LET station_positions == { i \in 0..(Len(path.nodes) - 1) : At(path.nodes, i) \in StationSet }
    IN IF Cardinality(station_positions) < 2 THEN { path }
       ELSE { RemoveStationAt(path, i) : i \in station_positions }

remove_charging_station(state) ==
    { CevrpState(modified_paths, state.unassigned, Some(state)) :
        modified_paths \in SeqProduct([ k \in DOMAIN state.paths |->
                                          RemoveStationOutcomes(state.paths[k]) ]) }

\* ---- worst_removal

\* (node, removal_cost, route_idx) of every interior node, routes in order
WorstCandidates(state) ==
    Concat([ route_idx \in DOMAIN state.paths |->
        LET path == state.paths[route_idx]
        IN [ i \in 1..(Len(path.nodes) - 2) |->
               [ node |-> At(path.nodes, i),
                 removal_cost |-> path.path_cost - calculate_path_cost(PopAt(path.nodes, i)),
                 route_idx |-> route_idx ] ] ])

\* the first k entries of the stable sort by descending removal_cost
RECURSIVE TopByRemovalCost(_, _)
TopByRemovalCost(c, k) ==
    IF k = 0 \/ c = <<>> THEN <<>>
    ELSE LET i == CHOOSE i \in DOMAIN c :
                     /\ \A j \in DOMAIN c : c[j].removal_cost <= c[i].removal_cost
                     /\ \A j \in 1..(i - 1) : c[j].removal_cost < c[i].removal_cost
         IN <<c[i]>> \o TopByRemovalCost(PopAt(c, i - 1), k - 1)

worst_removal(state) ==
    LET candidate_nodes == WorstCandidates(state)
        \* int(len(candidate_nodes) * 0.2)
        num_to_remove == Len(candidate_nodes) \div 5
        top == TopByRemovalCost(candidate_nodes, num_to_remove)
        nodes_to_remove == { <<top[i].node, top[i].route_idx>> : i \in DOMAIN top }
        NewPath(route_idx) ==
            LET path == state.paths[route_idx]
                new_nodes == SelectSeq(path.nodes, LAMBDA n : <<n, route_idx>> \notin nodes_to_remove)
                new_energy == calculate_path_energy(new_nodes)
            IN IF new_energy > cevrp.energy_capacity THEN path
               ELSE Path(new_nodes, calculate_path_cost(new_nodes),
                         get_total_demand_path(new_nodes), new_energy, TRUE)
    IN CevrpState([ route_idx \in DOMAIN state.paths |-> NewPath(route_idx) ],
                  state.unassigned \o [ i \in DOMAIN top |-> top[i].node ],
                  Some(state))

\* ---- cluster_removal

\* Max nodes to remove
delta == 5

\* MiniBatchKMeans with two clusters on the customers' coordinates: a split
\* into two non-empty groups in which every customer is at least as close
\* to its own group's centroid as to the other's.  The seed decides which
\* split, and which label each group gets.
SumPos(G) == LET RECURSIVE S(_)
                 S(T) == IF T = {} THEN 0
                         ELSE LET x == CHOOSE x \in T : TRUE IN cevrp.pos[x] + S(T \ {x})
             IN S(G)

KMeansStable(G, H) ==
    LET nG == Cardinality(G)
        nH == Cardinality(H)
        Closer(x, A, nA, B, nB) ==
            Abs(cevrp.pos[x] * nA - SumPos(A)) * nB <= Abs(cevrp.pos[x] * nB - SumPos(B)) * nA
    IN /\ \A x \in G : Closer(x, G, nG, H, nH)
       /\ \A x \in H : Closer(x, H, nH, G, nG)

\* max(clusters, key=len): the larger group, either one on a tie
SelectedClusters(customers) ==
    LET S == Range(customers)
    IN { G \in SUBSET S :
           /\ G # {} /\ S \ G # {}
           /\ KMeansStable(G, S \ G)
           /\ Cardinality(G) >= Cardinality(S \ G) }

Min2(a, b) == IF a <= b THEN a ELSE b

\* Step 3, the expansion loop: the (modified_paths, removed_nodes) it can end with
RECURSIVE ClusterExpand(_, _)
ClusterExpand(modified_paths, removed_nodes) ==
    LET here == { [ paths |-> modified_paths, removed |-> removed_nodes ] }
        closest == find_closest_customer(removed_nodes, modified_paths)
    IN IF Len(removed_nodes) >= delta \/ closest = 0 THEN here
       ELSE LET target_route == modified_paths[closest]
                customers == CustomersOf(target_route.nodes)
            IN IF Len(customers) < 2 THEN here
               ELSE UNION { UNION {
                        LET new_nodes == SelectSeq(target_route.nodes,
                                                   LAMBDA n : n \notin Range(add_remove))
                        IN IF ~is_path_valid(new_nodes)
                           THEN { [ paths |-> modified_paths,
                                    removed |-> removed_nodes \o add_remove ] }
                           ELSE ClusterExpand(
                                    [ modified_paths EXCEPT ![closest] = update_path(new_nodes) ],
                                    removed_nodes \o add_remove)
                        : add_remove \in Arrangements(selected_cluster,
                              Min2(delta - Len(removed_nodes), Cardinality(selected_cluster))) }
                    : selected_cluster \in SelectedClusters(customers) }

\* Steps 1 and 2 on the drawn route, then the expansion and the cleanup
ClusterRemovalFrom(state, r) ==
    LET selected_path == state.paths[r]
        customers == CustomersOf(selected_path.nodes)
    IN IF Len(customers) < 2 THEN { state }
       ELSE UNION { UNION {
                LET new_nodes == SelectSeq(selected_path.nodes, LAMBDA n : n \notin Range(to_remove))
                IN IF ~is_path_valid(new_nodes) THEN { state }
                   ELSE { CevrpState(SelectSeq(e.paths, LAMBDA p : Len(p.nodes) > 2),
                                     state.unassigned \o e.removed,
                                     Some(state))
                          : e \in ClusterExpand([ state.paths EXCEPT ![r] = update_path(new_nodes) ],
                                                to_remove) }
                : to_remove \in Arrangements(selected_cluster,
                                             Min2(delta, Cardinality(selected_cluster))) }
            : selected_cluster \in SelectedClusters(customers) }

cluster_removal(state) ==
    LET candidate_routes == { k \in DOMAIN state.paths :
                                /\ Len(state.paths[k].nodes) > 3
                                /\ \E i \in DOMAIN state.paths[k].nodes :
                                       IsCustomer(state.paths[k].nodes[i]) }
    IN IF candidate_routes = {} THEN { state }
       ELSE UNION { ClusterRemovalFrom(state, r) : r \in candidate_routes }

-----------------------------------------------------------------------------
(* repair_operators.py.  A repair operator returns an Optional state: the  *)
(* insertion operators hand back state.previous_state, which may be None.  *)

\* list.remove(x): s without the first occurrence of x
RemoveFirst(s, x) ==
    IF \E i \in DOMAIN s : s[i] = x
    THEN PopAt(s, (CHOOSE i \in DOMAIN s : s[i] = x /\ \A j \in 1..(i - 1) : s[j] # x) - 1)
    ELSE s

\* s[k] with Python's negative indices
PyAt(s, k) == IF k < 0 THEN s[Len(s) + k + 1] ELSE s[k + 1]

\* ---- smart_reinsertion

\* the while loop over unassigned_copy for one not-feasible path
RECURSIVE SmartInsertLoop(_, _, _, _)
SmartInsertLoop(path, i, unassigned_copy, visited_nodes) ==
    IF i >= Len(unassigned_copy)
    THEN [ path |-> path, unassigned |-> unassigned_copy, visited |-> visited_nodes ]
    ELSE LET node == At(unassigned_copy, i)
             nodes == path.nodes
             insert_position == IF Last(nodes) = DEFAULT_SOURCE_NODE
                                THEN Len(nodes) - 1 ELSE Len(nodes)
             energy_used == path.energy
             prev_node == PyAt(nodes, insert_position - 1)
             energy_to_node == calculate_edge_energy_consumption(prev_node, node)
             station_to_add == find_best_charging_station(prev_node, energy_used)
             needs_station == /\ prev_node \notin StationSet
                              /\ energy_used + energy_to_node > cevrp.energy_capacity
             candidate_nodes ==
                 IF needs_station
                 THEN InsertAt(InsertAt(nodes, insert_position, station_to_add),
                               insert_position + 1, node)
                 ELSE InsertAt(nodes, insert_position, node)
             candidate_energy ==
                 IF needs_station
                 THEN calculate_edge_energy_consumption(station_to_add, node)
                 ELSE IF prev_node \in StationSet THEN energy_to_node
                 ELSE energy_used + energy_to_node
             candidate_demand == get_total_demand_path(candidate_nodes)
         IN IF node \in visited_nodes \/ (needs_station /\ station_to_add = NoStation)
            THEN SmartInsertLoop(path, i + 1, unassigned_copy, visited_nodes)
            ELSE IF candidate_demand <= cevrp.capacity
            THEN SmartInsertLoop(
                     [ path EXCEPT !.nodes = candidate_nodes,
                                   !.path_cost = calculate_path_cost(candidate_nodes),
                                   !.energy = candidate_energy,
                                   !.demand = candidate_demand ],
                     i + 1, PopAt(unassigned_copy, i), visited_nodes \cup {node})
            ELSE SmartInsertLoop(path, i + 1, unassigned_copy, visited_nodes)

\* the first for loop: the not-feasible paths in turn, sharing the list and the set
RECURSIVE SmartInsertAll(_, _, _, _)
SmartInsertAll(not_feasible_paths, done, unassigned_copy, visited_nodes) ==
    IF not_feasible_paths = <<>>
    THEN [ paths |-> done, unassigned |-> unassigned_copy, visited |-> visited_nodes ]
    ELSE LET r == SmartInsertLoop(Head(not_feasible_paths), 0, unassigned_copy, visited_nodes)
         IN SmartInsertAll(Tail(not_feasible_paths), Append(done, r.path),
                           r.unassigned, r.visited)

\* the second for loop on one path: close the route at the depot
SmartClose(path) ==
    LET nodes == path.nodes
        last_node == Last(nodes)
        current_energy == path.energy
        energy_to_depot == calculate_edge_energy_consumption(last_node, DEFAULT_SOURCE_NODE)
        station == find_best_charging_station(last_node, current_energy)
        Closed(new_nodes, new_energy) ==
            [ path EXCEPT !.nodes = new_nodes, !.energy = new_energy,
                          !.path_cost = calculate_path_cost(new_nodes),
                          !.feasible = TRUE ]
    IN IF last_node = DEFAULT_SOURCE_NODE THEN Closed(nodes, path.energy)
       ELSE IF last_node \in StationSet
            THEN Closed(Append(nodes, DEFAULT_SOURCE_NODE), energy_to_depot)
       ELSE IF current_energy + energy_to_depot > cevrp.energy_capacity
            THEN IF station # NoStation
                 THEN Closed(nodes \o <<station, DEFAULT_SOURCE_NODE>>,
                             calculate_edge_energy_consumption(station, DEFAULT_SOURCE_NODE))
                 ELSE [ path EXCEPT !.feasible = FALSE ]
       ELSE Closed(Append(nodes, DEFAULT_SOURCE_NODE), current_energy + energy_to_depot)

smart_reinsertion(state) ==
    LET not_feasible_paths == SelectSeq(state.paths, LAMBDA p : ~p.feasible)
        feasible_paths == SelectSeq(state.paths, LAMBDA p : p.feasible)
        visited_nodes == UNION { Range(state.paths[k].nodes) : k \in DOMAIN state.paths }
                           \ {DEFAULT_SOURCE_NODE}
        unassigned_copy == SelectSeq(state.unassigned, LAMBDA n : n \notin visited_nodes)
        Result(shuffled) ==
            LET r == SmartInsertAll(not_feasible_paths, <<>>, shuffled, visited_nodes)
                closed == [ k \in DOMAIN r.paths |-> SmartClose(r.paths[k]) ]
            IN Some(CevrpState(closed \o feasible_paths,
                               SelectSeq(r.unassigned, LAMBDA n : n \notin r.visited),
                               None))
    IN { Result([ k \in DOMAIN unassigned_copy |-> unassigned_copy[perm[k]] ])
         : perm \in Arrangements(DOMAIN unassigned_copy, Len(unassigned_copy)) }

\* ---- the insertion operators

\* the first entry of c with the least cost (a scan that replaces on <)
FirstCheapest(c) ==
    c[CHOOSE i \in DOMAIN c :
        /\ \A j \in DOMAIN c : c[i].cost <= c[j].cost
        /\ \A j \in 1..(i - 1) : c[j].cost > c[i].cost]

\* every (path, position) of the range lo..len-hi with the route it would give
InsertionOptions(node, modified_paths, hi) ==
    Concat([ path_idx \in DOMAIN modified_paths |->
        LET nodes == modified_paths[path_idx].nodes
        IN [ i \in 1..(Len(nodes) - hi) |->
               LET new_nodes == InsertAt(nodes, i, node)
               IN [ nodes |-> new_nodes,
                    cost |-> calculate_path_cost(new_nodes),
                    energy |-> calculate_path_energy(new_nodes),
                    demand |-> get_total_demand_path(new_nodes),
                    pos |-> i,
                    path_idx |-> path_idx ] ] ])

InsertionFeasible(o) ==
    o.energy <= cevrp.energy_capacity /\ o.demand <= cevrp.capacity

InsertedPath(o) == Path(o.nodes, o.cost, o.demand, o.energy, TRUE)

\* InsertionResult with 'return None' in place of 'return state.previous_state'
InsertionResultNone(state, modified_paths, unassigned) ==
    IF are_paths_depot_constrained(modified_paths) /\ Len(unassigned) = 0
    THEN Some(CevrpState(modified_paths, unassigned, None))
    ELSE None

\* what the three operators return once the insertion loops are over
InsertionResult(state, modified_paths, unassigned) ==
    IF are_paths_depot_constrained(modified_paths) /\ Len(unassigned) = 0
    THEN Some(CevrpState(modified_paths, unassigned, None))
    ELSE state.previous_state

\* ---- greedy_insertion

RECURSIVE GreedyLoop(_, _, _)
GreedyLoop(todo, modified_paths, unassigned) ==
    IF todo = <<>> THEN [ paths |-> modified_paths, unassigned |-> unassigned ]
    ELSE LET node == Head(todo)
             options == SelectSeq(InsertionOptions(node, modified_paths, 1), InsertionFeasible)
         IN IF options # <<>>
            THEN LET o == FirstCheapest(options)
                 IN GreedyLoop(Tail(todo),
                               [ modified_paths EXCEPT ![o.path_idx] = InsertedPath(o) ],
                               unassigned)
            ELSE GreedyLoop(Tail(todo), modified_paths, Append(unassigned, node))

greedy_insertion(state) ==
    LET r == GreedyLoop(state.unassigned, state.paths, <<>>)
    IN InsertionResult(state, r.paths, r.unassigned)

\* ---- regret_k_insertion (k = 2)

\* the scan over the unassigned nodes: the node of largest regret, ties by cost
RECURSIVE RegretScan(_, _, _)
RegretScan(todo, modified_paths, chosen) ==
    IF todo = <<>> THEN chosen
    ELSE LET node == Head(todo)
             insertion_options ==
                 SelectSeq(InsertionOptions(node, modified_paths, 2), InsertionFeasible)
         IN IF insertion_options = <<>> THEN RegretScan(Tail(todo), modified_paths, chosen)
            ELSE LET first == FirstCheapest(insertion_options)
                     rest == SelectSeq(insertion_options,
                                 LAMBDA o : ~(o.pos = first.pos /\ o.path_idx = first.path_idx))
                     regret == IF rest = <<>> THEN 0 ELSE FirstCheapest(rest).cost - first.cost
                     take == \/ ~chosen.found
                             \/ regret > chosen.max_regret
                             \/ regret = chosen.max_regret /\ first.cost < chosen.option.cost
                 IN RegretScan(Tail(todo), modified_paths,
                        IF take THEN [ found |-> TRUE, node |-> node, option |-> first,
                                       max_regret |-> regret ]
                        ELSE chosen)

RECURSIVE RegretLoop(_, _)
RegretLoop(unassigned, modified_paths) ==
    IF unassigned = <<>> THEN [ paths |-> modified_paths, unassigned |-> unassigned ]
    ELSE LET c == RegretScan(unassigned, modified_paths, [ found |-> FALSE ])
         IN IF c.found
            THEN RegretLoop(RemoveFirst(unassigned, c.node),
                            [ modified_paths EXCEPT ![c.option.path_idx] = InsertedPath(c.option) ])
            ELSE [ paths |-> modified_paths, unassigned |-> unassigned ]

regret_k_insertion(state) ==
    LET r == RegretLoop(state.unassigned, state.paths)
    IN InsertionResult(state, r.paths, r.unassigned)

\* ---- best_feasible_insertion

\* the positions the if / elif chain does not skip
PositionAllowed(nodes, i) ==
    \/ i = 1 /\ At(nodes, 0) = DEFAULT_SOURCE_NODE
    \/ i = Len(nodes) - 1 /\ At(nodes, i) = DEFAULT_SOURCE_NODE
    \/ At(nodes, i - 1) # DEFAULT_SOURCE_NODE

RECURSIVE BestFeasibleLoop(_, _, _)
BestFeasibleLoop(todo, modified_paths, unassigned) ==
    IF todo = <<>> THEN [ paths |-> modified_paths, unassigned |-> unassigned ]
    ELSE LET node == Head(todo)
             options == SelectSeq(InsertionOptions(node, modified_paths, 1),
                            LAMBDA o : /\ PositionAllowed(modified_paths[o.path_idx].nodes, o.pos)
                                       /\ InsertionFeasible(o))
         IN IF options # <<>>
            THEN BestFeasibleLoop(Tail(todo),
                     [ modified_paths EXCEPT ![options[1].path_idx] = InsertedPath(options[1]) ],
                     RemoveFirst(unassigned, node))
            ELSE BestFeasibleLoop(Tail(todo), modified_paths, unassigned)

best_feasible_insertion(state) ==
    LET r == BestFeasibleLoop(state.unassigned, state.paths, state.unassigned)
    IN InsertionResult(state, r.paths, r.unassigned)

-----------------------------------------------------------------------------
(* Shared/heuristic.py: the in-place local searches apply_local_search     *)
(* draws from when the engine reports a new best.                          *)

\* <<a, a+1, ..., b>>
IntSeq(a, b) == [ x \in 1..(b - a + 1) |-> a + x - 1 ]

Swap(nodes, i, j) ==
    [ k \in DOMAIN nodes |-> IF k = i + 1 THEN At(nodes, j)
                             ELSE IF k = j + 1 THEN At(nodes, i) ELSE nodes[k] ]

\* nodes[i:j+1] = reversed(nodes[i:j+1])
ReverseSegment(nodes, i, j) ==
    [ k \in DOMAIN nodes |-> IF i + 1 <= k /\ k <= j + 1 THEN nodes[i + j + 2 - k] ELSE nodes[k] ]

\* the index pairs the loops of each search visit, in order
SearchMoves(kind, n) ==
    IF kind = "adjacent_swap"
    THEN [ x \in DOMAIN IntSeq(1, n - 3) |-> <<IntSeq(1, n - 3)[x], IntSeq(1, n - 3)[x] + 1>> ]
    ELSE IF kind = "single_insertion"
    THEN Concat([ x \in DOMAIN IntSeq(1, n - 2) |->
             LET i == IntSeq(1, n - 2)[x]
             IN SelectSeq([ y \in DOMAIN IntSeq(1, n - 2) |-> <<i, IntSeq(1, n - 2)[y]>> ],
                          LAMBDA m : m[1] # m[2]) ])
    ELSE \* general_swap and reverse_location: i in range(1, n-3), j in range(i+2, n-1)
         Concat([ x \in DOMAIN IntSeq(1, n - 4) |->
             LET i == IntSeq(1, n - 4)[x]
             IN [ y \in DOMAIN IntSeq(i + 2, n - 2) |-> <<i, IntSeq(i + 2, n - 2)[y]>> ] ])

ApplyMove(kind, nodes, m) ==
    IF kind = "adjacent_swap" \/ kind = "general_swap" THEN Swap(nodes, m[1], m[2])
    ELSE IF kind = "single_insertion" THEN InsertAt(PopAt(nodes, m[1]), m[2], At(nodes, m[1]))
    ELSE ReverseSegment(nodes, m[1], m[2])

\* SearchWalk keeping every move whose energy is within B, whatever its cost
RECURSIVE SearchWalkAnyCost(_, _, _, _, _)
SearchWalkAnyCost(kind, moves, nodes, best_cost, best_energy) ==
    IF moves = <<>> THEN [ nodes |-> nodes, cost |-> best_cost, energy |-> best_energy ]
    ELSE IF calculate_path_energy(ApplyMove(kind, nodes, Head(moves))) <= cevrp.energy_capacity
    THEN SearchWalkAnyCost(kind, Tail(moves), ApplyMove(kind, nodes, Head(moves)),
                           calculate_path_cost(ApplyMove(kind, nodes, Head(moves))),
                           calculate_path_energy(ApplyMove(kind, nodes, Head(moves))))
    ELSE SearchWalkAnyCost(kind, Tail(moves), nodes, best_cost, best_energy)

\* first-improvement walk: a move stays when it lowers the cost and the
\* energy calculate_path_energy reports is within B, else it is reverted
RECURSIVE SearchWalk(_, _, _, _, _)
SearchWalk(kind, moves, nodes, best_cost, best_energy) ==
    IF moves = <<>> THEN [ nodes |-> nodes, cost |-> best_cost, energy |-> best_energy ]
    ELSE LET moved == ApplyMove(kind, nodes, Head(moves))
             new_cost == calculate_path_cost(moved)
             new_energy == calculate_path_energy(moved)
         IN IF new_cost < best_cost /\ new_energy <= cevrp.energy_capacity
            THEN SearchWalk(kind, Tail(moves), moved, new_cost, new_energy)
            ELSE SearchWalk(kind, Tail(moves), nodes, best_cost, best_energy)

adjacent_swap_local_search(state) ==
    [ state EXCEPT !.paths = [ k \in DOMAIN state.paths |->
        LET path == state.paths[k]
            w == SearchWalk("adjacent_swap", SearchMoves("adjacent_swap", Len(path.nodes)),
                            path.nodes, path.path_cost, path.energy)
        IN [ path EXCEPT !.nodes = w.nodes, !.path_cost = w.cost, !.energy = w.energy,
                         !.feasible = TRUE ] ] ]

\* general_swap, single_insertion and search_reverse_location share one body
WalkLocalSearch(kind, state) ==
    [ state EXCEPT !.paths = [ k \in DOMAIN state.paths |->
        LET path == state.paths[k]
            w == SearchWalk(kind, SearchMoves(kind, Len(path.nodes)), path.nodes,
                            calculate_path_cost(path.nodes),
                            calculate_path_energy_consumption(path.nodes))
        IN [ path EXCEPT !.nodes = w.nodes, !.path_cost = w.cost, !.energy = w.energy ] ] ]

general_swap_local_search(state) == WalkLocalSearch("general_swap", state)

single_insertion_local_search(state) == WalkLocalSearch("single_insertion", state)

search_reverse_location_local_search(state) == WalkLocalSearch("reverse_location", state)

\* ---- block_insertion_local_search: three draws per path

BlockSkips(path) ==
    \/ Len(path.nodes) < 5
    \/ Last(path.nodes) # path.nodes[1]
    \/ Min2(4, Len(path.nodes) - 2) < 2

BlockSizes(path) == 2..Min2(4, Len(path.nodes) - 2)

\* rng.integers(1, len - block_size - 1): an empty range raises ValueError
BlockStarts(path, block_size) == 1..(Len(path.nodes) - block_size - 2)

BlockRemaining(path, block_size, start_idx) ==
    Slice(path.nodes, 0, start_idx) \o From(path.nodes, start_idx + block_size)

BlockMove(path, block_size, start_idx, insert_idx) ==
    LET block == Slice(path.nodes, start_idx, start_idx + block_size)
        remaining_nodes == BlockRemaining(path, block_size, start_idx)
        new_nodes == Slice(remaining_nodes, 0, insert_idx) \o block \o From(remaining_nodes, insert_idx)
        new_cost == calculate_path_cost(new_nodes)
        new_energy == calculate_path_energy(new_nodes)
    IN IF /\ new_cost < calculate_path_cost(path.nodes)
          /\ new_energy <= cevrp.energy_capacity
          /\ is_path_connected(new_nodes)
       THEN [ path EXCEPT !.nodes = new_nodes, !.path_cost = new_cost, !.energy = new_energy ]
       ELSE path

BlockOutcomes(path) ==
    IF BlockSkips(path) THEN { path }
    ELSE UNION { UNION {
            LET remaining_nodes == BlockRemaining(path, block_size, start_idx)
            IN IF remaining_nodes[1] # path.nodes[1] \/ Last(remaining_nodes) # path.nodes[1]
               THEN { path }
               ELSE { BlockMove(path, block_size, start_idx, insert_idx)
                      : insert_idx \in 1..(Len(remaining_nodes) - 1) }
            : start_idx \in BlockStarts(path, block_size) }
        : block_size \in BlockSizes(path) }

BlockRaises(state) ==
    \E k \in DOMAIN state.paths :
        /\ ~BlockSkips(state.paths[k])
        /\ \E block_size \in BlockSizes(state.paths[k]) :
               BlockStarts(state.paths[k], block_size) = {}

block_insertion_local_search(state) ==
    { [ state EXCEPT !.paths = ps ]
      : ps \in SeqProduct([ k \in DOMAIN state.paths |-> BlockOutcomes(state.paths[k]) ]) }

-----------------------------------------------------------------------------
(* Shared/heuristic.py: apply_2opt, which main.py applies to every route   *)
(* before the ALNS phase.                                                  *)

\* the pairs (i, j) of the two loops, in order
TwoOptMoves(n) ==
    Concat([ i \in DOMAIN IntSeq(1, n - 2) |->
        [ y \in DOMAIN IntSeq(i + 1, n - 2) |-> <<i, i + y>> ] ])

\* every reversal is taken from the route as it was handed in; the best
\* route is replaced whenever a reversal costs less than the best so far
RECURSIVE TwoOptWalk(_, _, _)
TwoOptWalk(moves, path, best_route) ==
    IF moves = <<>> THEN best_route
    ELSE TwoOptWalk(Tail(moves), path,
            IF calculate_path_cost(ReverseSegment(path.nodes, Head(moves)[1], Head(moves)[2]))
                   < best_route.path_cost
            THEN [ best_route EXCEPT
                     !.nodes = ReverseSegment(path.nodes, Head(moves)[1], Head(moves)[2]),
                     !.path_cost = calculate_path_cost(
                                       ReverseSegment(path.nodes, Head(moves)[1], Head(moves)[2])) ]
            ELSE best_route)

apply_2opt(path) ==
    IF Len(path.nodes) < 3 THEN path
    ELSE TwoOptWalk(TwoOptMoves(Len(path.nodes)), path, path)

-----------------------------------------------------------------------------
(* Shared/heuristic.py: apply_2opt_star.  The first pair of routes with    *)
(* three nodes or more each reaches graph_api.is_feasible(...) in the      *)
(* first pass of the position loops.  GraphApi (Shared/graph_api.py)       *)
(* defines no is_feasible, so the call raises AttributeError before any    *)
(* tail is swapped; a list without such a pair is returned as copied.      *)

\* the pairs (idx1, idx2) that get past the 'continue' of the short routes
TailSwapPairs(best_paths) ==
    { p \in (DOMAIN best_paths) \X (DOMAIN best_paths) :
        /\ p[1] < p[2]
        /\ Len(best_paths[p[1]].nodes) >= 3
        /\ Len(best_paths[p[2]].nodes) >= 3 }

\* the returned list, or the exception that leaves the function
apply_2opt_star(paths) ==
    IF TailSwapPairs(paths) # {}
    THEN [ raises |-> "AttributeError", paths |-> <<>> ]
    ELSE [ raises |-> "", paths |-> paths ]
-----------------------------------------------------------------------------
(* The MMAS phase (src/MMAS).  Its graph holds the depot and the customers *)
(* only (the instance is parsed with include_stations=False).  Pheromone   *)
(* values, desirabilities and probabilities are exact rationals <<n, d>>   *)
(* with d > 0 in lowest terms; the source computes them in floats.         *)

RECURSIVE GCD(_, _)
GCD(a, b) == IF b = 0 THEN a ELSE GCD(b, a % b)

Rat(n, d) == <<n \div GCD(Abs(n), d), d \div GCD(Abs(n), d)>>

RatAdd(a, b) ==
    Rat(a[1] * (b[2] \div GCD(a[2], b[2])) + b[1] * (a[2] \div GCD(a[2], b[2])),
        a[2] * (b[2] \div GCD(a[2], b[2])))

RatMul(a, b) == Rat(a[1] * b[1], a[2] * b[2])

\* a / b for b > 0
RatDiv(a, b) == Rat(a[1] * b[2], a[2] * b[1])

RatLess(a, b) ==
    IF a[1] <= 0 /\ b[1] > 0 THEN TRUE
    ELSE IF a[1] >= 0 /\ b[1] <= 0 THEN FALSE
    ELSE a[1] * b[2] < b[1] * a[2]

RatMax(a, b) == IF RatLess(a, b) THEN b ELSE a

RatMin(a, b) == IF RatLess(b, a) THEN b ELSE a

RECURSIVE RatPow(_, _)
RatPow(a, k) == IF k = 0 THEN <<1, 1>> ELSE RatMul(a, RatPow(a, k - 1))

\* float('inf'): larger than any cost of the instances
inf == 1000000

\* The instances of the MMAS phase: node_coord_section gives the order of
\* the nodes in the instance file, which is the order of every neighbour
\* list of the graph built from it.
AcoInstances ==
    << \* four customers, one vehicle that can carry them all
       [ pos       |-> ("1" :> 0 @@ "2" :> 10 @@ "3" :> 20 @@ "4" :> 30 @@ "5" :> -10),
         demand    |-> ("1" :> 0 @@ "2" :> 1 @@ "3" :> 1 @@ "4" :> 1 @@ "5" :> 1),
         node_coord_section |-> <<"1", "2", "3", "4", "5">>,
         charging_stations |-> <<>>,
         capacity  |-> 10,
         energy_capacity |-> 100,
         energy_consumption |-> 1,
         vehicles  |-> 1,
         optimal_value |-> 80,
         routes    |-> <<>> ],
       \* six customers that fill two vehicles exactly:
       \* {"2","4","6"} and {"3","5","7"} both weigh 10
       [ pos       |-> ("1" :> 0 @@ "2" :> 30 @@ "3" :> -30 @@ "4" :> 10 @@ "5" :> -10
                        @@ "6" :> 20 @@ "7" :> -20),
         demand    |-> ("1" :> 0 @@ "2" :> 3 @@ "3" :> 3 @@ "4" :> 5 @@ "5" :> 5
                        @@ "6" :> 2 @@ "7" :> 2),
         node_coord_section |-> <<"1", "2", "3", "4", "5", "6", "7">>,
         charging_stations |-> <<>>,
         capacity  |-> 10,
         energy_capacity |-> 100,
         energy_consumption |-> 1,
         vehicles  |-> 2,
         optimal_value |-> 120,
         routes    |-> <<>> ],
       \* four customers that fill two vehicles exactly:
       \* {"2","4"} and {"3","5"} both weigh 10
       [ pos       |-> ("1" :> 0 @@ "2" :> 30 @@ "3" :> -30 @@ "4" :> 10 @@ "5" :> -10),
         demand    |-> ("1" :> 0 @@ "2" :> 4 @@ "3" :> 4 @@ "4" :> 6 @@ "5" :> 6),
         node_coord_section |-> <<"1", "2", "3", "4", "5">>,
         charging_stations |-> <<>>,
         capacity  |-> 10,
         energy_capacity |-> 100,
         energy_consumption |-> 1,
         vehicles  |-> 2,
         optimal_value |-> 120,
         routes    |-> <<>> ],
       \* one customer
       [ pos       |-> ("1" :> 0 @@ "2" :> 10),
         demand    |-> ("1" :> 0 @@ "2" :> 1),
         node_coord_section |-> <<"1", "2">>,
         charging_stations |-> <<>>,
         capacity  |-> 10,
         energy_capacity |-> 100,
         energy_consumption |-> 1,
         vehicles  |-> 1,
         optimal_value |-> 20,
         routes    |-> <<>> ],
       \* two customers at the same coordinates
       [ pos       |-> ("1" :> 0 @@ "2" :> 10 @@ "3" :> 10),
         demand    |-> ("1" :> 0 @@ "2" :> 1 @@ "3" :> 1),
         node_coord_section |-> <<"1", "2", "3">>,
         charging_stations |-> <<>>,
         capacity  |-> 10,
         energy_capacity |-> 100,
         energy_consumption |-> 1,
         vehicles  |-> 1,
         optimal_value |-> 20,
         routes    |-> <<>> ] >>

\* ---- src/MMAS/pheromone_operators.py

\* ACO's evaporation_rate 0.98, pheromone_importance 1.0, cost_importance 2.0
\* and max_pheromone_level 1.0
evaporation_rate == <<49, 50>>

pheromone_importance == 1

cost_importance == 2

max_pheromone_level == <<1, 1>>

\* tau^alpha * (1 / cost)^beta, and 0 for an edge of cost 0
compute_edge_desirability(pheromone_value, edge_cost, alpha, beta) ==
    IF edge_cost = 0 THEN <<0, 1>>
    ELSE RatMul(RatPow(pheromone_value, alpha), RatPow(<<1, edge_cost>>, beta))

validate_pheromone_levels(pheromone_value, max_level, min_level) ==
    RatMin(RatMax(pheromone_value, min_level), max_level)

\* 1 / ((1 - rho) * best_path_cost)
calculate_max_phi(rho, best_cost) ==
    Rat(rho[2], (rho[2] - rho[1]) * best_cost)

\* ((1 - 1/r) / (n/2 - 1)) * (1/r) for r = 0.05^(1/n), in thousandths: the
\* n-th root of pr is below 1, so the numerator 1 - 1/r is negative
MinPhiFactor(n) ==
    CASE n = 3 -> <<-9307, 1000>>
      [] n = 4 -> <<-2357, 1000>>
      [] n = 5 -> <<-996, 1000>>
      [] n = 6 -> <<-533, 1000>>
      [] n = 7 -> <<-328, 1000>>
      [] n = 8 -> <<-220, 1000>>

\* raises ValueError for total_customers <= 2 (see DepositPheromones)
calculate_min_phi(max_level, total_customers) ==
    RatMul(max_level, MinPhiFactor(total_customers))

calculate_pheromone_value(rho, pheromone_value, best_cost, total_customers) ==
    validate_pheromone_levels(
        RatAdd(RatMul(rho, pheromone_value), <<1, best_cost>>),
        calculate_max_phi(rho, best_cost),
        calculate_min_phi(calculate_max_phi(rho, best_cost), total_customers))

\* random.seed(1234); random.random() gives 0.9664535356921388 on every
\* call; 605/626 is the closest fraction with a denominator below 1000
\* (it exceeds the pick by 1.4e-7)
pick == <<605, 626>>

\* sorted(probabilities.items(), key=lambda item: -item[1]): a stable sort,
\* so equal probabilities keep their insertion order.  Items are <<node, p>>.
RECURSIVE InsertSorted(_, _)
InsertSorted(sorted, item) ==
    IF sorted = <<>> THEN <<item>>
    ELSE IF RatLess(Head(sorted)[2], item[2]) THEN <<item>> \o sorted
    ELSE <<Head(sorted)>> \o InsertSorted(Tail(sorted), item)

RECURSIVE SortedDescending(_)
SortedDescending(items) ==
    IF items = <<>> THEN <<>>
    ELSE InsertSorted(SortedDescending(SubSeq(items, 1, Len(items) - 1)),
                      items[Len(items)])

\* the scan of roulette_wheel_selection: the first node whose cumulative
\* probability exceeds the pick, and "RuntimeError" when there is none
RECURSIVE RouletteScan(_, _)
RouletteScan(sorted, current) ==
    IF sorted = <<>> THEN "RuntimeError"
    ELSE IF RatLess(pick, RatAdd(current, Head(sorted)[2])) THEN Head(sorted)[1]
    ELSE RouletteScan(Tail(sorted), RatAdd(current, Head(sorted)[2]))

roulette_wheel_selection(probabilities) ==
    RouletteScan(SortedDescending(probabilities), <<0, 1>>)

\* ---- GraphApi queries of the MMAS phase (src/Shared/graph_api.py)

\* the edges build_graph adds: every ordered pair of distinct nodes
Edges == { e \in GraphNodes \X GraphNodes : e[1] # e[2] }

get_edge_pheromones(u, v) ==
    IF has_edge(u, v) THEN pheromones[<<u, v>>] ELSE <<0, 1>>

get_length_graph == Cardinality(GraphNodes)

\* graph.neighbors(node), in the order the edges were added
get_neighbors(node) ==
    SelectSeq(cevrp.node_coord_section, LAMBDA v : has_edge(node, v))

RECURSIVE get_total_demand_of_neighbors(_)
get_total_demand_of_neighbors(neighbors) ==
    IF neighbors = <<>> THEN 0
    ELSE get_demand_node(Head(neighbors)) + get_total_demand_of_neighbors(Tail(neighbors))

\* ---- Ant (src/MMAS/ant.py)

\* Ant(...) and __post_init__: the ant stands on the source, which opens
\* its first path
NewAnt(best_cost) ==
    [ visited_nodes |-> {},
      path |-> Path(<<DEFAULT_SOURCE_NODE>>, 0, 0, 0, FALSE),
      paths |-> <<>>,
      path_cost |-> 0,
      is_fit |-> FALSE,
      limit_load_current_vehicle |-> 0,
      vehicle_counter |-> 0,
      current_node |-> DEFAULT_SOURCE_NODE,
      best_path_cost |-> best_cost ]

\* ant.py's reached_destination takes no argument; _ant_exploration calls
\* it with one (use_route_construction).  The model follows the method.
reached_destination(ant) ==
    Cardinality(ant.visited_nodes) >= get_length_graph

\* get_unvisited_neighbors_with_demand without the test of the load
get_unvisited_neighbors_any_demand(ant) ==
    SelectSeq(get_neighbors(ant.current_node), LAMBDA v : v \notin ant.visited_nodes)

get_unvisited_neighbors_with_demand(ant) ==
    SelectSeq(get_neighbors(ant.current_node),
              LAMBDA v : /\ v \notin ant.visited_nodes
                         /\ get_demand_node(v) <=
                                cevrp.capacity - ant.limit_load_current_vehicle)

\* the candidates of _choose_next_node: the depot joins them when the
\* vehicles left can carry every candidate, or when there is no candidate
Candidates(ant) ==
    IF \/ get_total_demand_of_neighbors(get_unvisited_neighbors_with_demand(ant))
             <= cevrp.capacity * (cevrp.vehicles - ant.vehicle_counter - 1)
       \/ get_unvisited_neighbors_with_demand(ant) = <<>>
    THEN Append(get_unvisited_neighbors_with_demand(ant), DEFAULT_SOURCE_NODE)
    ELSE get_unvisited_neighbors_with_demand(ant)

get_edge_desirability(ant, target_node) ==
    compute_edge_desirability(get_edge_pheromones(ant.current_node, target_node),
                              get_edge_cost(ant.current_node, target_node),
                              pheromone_importance, cost_importance)

RECURSIVE compute_all_edges_desirability(_, _)
compute_all_edges_desirability(ant, neighbors) ==
    IF neighbors = <<>> THEN <<0, 1>>
    ELSE RatAdd(compute_all_edges_desirability(ant, SubSeq(neighbors, 1, Len(neighbors) - 1)),
                get_edge_desirability(ant, neighbors[Len(neighbors)]))

\* the dict of _calculate_edge_probabilities as <<node, probability>> items
\* in insertion order; the division raises when the total is 0
calculate_edge_probabilities(ant, neighbors) ==
    [ k \in DOMAIN neighbors |->
        <<neighbors[k],
          RatDiv(get_edge_desirability(ant, neighbors[k]),
                 compute_all_edges_desirability(ant, neighbors))>> ]

Raised(next_node) == next_node \in {"ZeroDivisionError", "RuntimeError"}

\* _choose_next_node: a node key, or the name of the exception raised
choose_next_node(ant) ==
    IF compute_all_edges_desirability(ant, Candidates(ant)) = <<0, 1>>
    THEN "ZeroDivisionError"
    ELSE roulette_wheel_selection(calculate_edge_probabilities(ant, Candidates(ant)))

calculate_edge_cost(ant, next_node) == get_edge_cost(ant.current_node, next_node)

\* take_step once next_node is chosen: the node the ant leaves joins
\* visited_nodes; arriving at the source closes the path and opens the
\* next one, and leaves current_node where it was
MoveTo(ant, next_node) ==
    IF next_node = DEFAULT_SOURCE_NODE
    THEN [ ant EXCEPT
             !.visited_nodes = @ \cup {ant.current_node},
             !.path_cost = @ + calculate_edge_cost(ant, next_node),
             !.paths = Append(@, Path(Append(ant.path.nodes, next_node),
                                      ant.path.path_cost + calculate_edge_cost(ant, next_node),
                                      0, 0, FALSE)),
             !.path = Path(<<DEFAULT_SOURCE_NODE>>, 0, 0, 0, FALSE),
             !.limit_load_current_vehicle = 0,
             !.vehicle_counter = @ + 1 ]
    ELSE [ ant EXCEPT
             !.visited_nodes = @ \cup {ant.current_node},
             !.path_cost = @ + calculate_edge_cost(ant, next_node),
             !.path = Path(Append(ant.path.nodes, next_node),
                           ant.path.path_cost + calculate_edge_cost(ant, next_node),
                           0, 0, FALSE),
             !.limit_load_current_vehicle = @ + get_demand_node(next_node),
             !.current_node = next_node ]

take_step(ant) == MoveTo(ant, choose_next_node(ant))

\* deposit_pheromones_on_paths: every edge of every path in turn, each
\* with the best_path_cost the ant was created with
RECURSIVE DepositOnNodes(_, _, _)
DepositOnNodes(ph, nodes, best_cost) ==
    IF Len(nodes) < 2 THEN ph
    ELSE DepositOnNodes(
             IF has_edge(nodes[1], nodes[2])
             THEN [ ph EXCEPT ![<<nodes[1], nodes[2]>>] =
                       calculate_pheromone_value(evaporation_rate, @, best_cost,
                                                 get_length_graph) ]
             ELSE ph,
             Tail(nodes), best_cost)

RECURSIVE deposit_pheromones_on_paths(_, _, _)
deposit_pheromones_on_paths(ph, paths, best_cost) ==
    IF paths = <<>> THEN ph
    ELSE deposit_pheromones_on_paths(DepositOnNodes(ph, Head(paths).nodes, best_cost),
                                     Tail(paths), best_cost)

\* ---- ACO (src/MMAS/aco.py)

are_valid_paths(paths) == \A k \in DOMAIN paths : Len(paths[k].nodes) > 4

flatten_path(paths) == Concat([ k \in DOMAIN paths |-> paths[k].nodes ])

\* _get_best_solution_found: <<flattened nodes, cost, paths>> of the best
\* path if its stored costs add up to best_path_cost, else of the second
\* best, else the empty solution of cost inf
get_best_solution_found(a) ==
    IF a.best_path = <<>> \/ calculate_paths_cost(a.best_path) # a.best_path_cost
    THEN IF a.second_best_path # <<>> /\ a.second_best_path_cost # inf
         THEN <<flatten_path(a.second_best_path), a.second_best_path_cost, a.second_best_path>>
         ELSE << <<>>, inf, <<>> >>
    ELSE <<flatten_path(a.best_path), a.best_path_cost, a.best_path>>

\* the values of the MMAS variables while another phase is explored
MmasIdle ==
    /\ pcM = "idle"
    /\ pheromones = <<>>
    /\ aco = <<>>
    /\ aco_iteration = 0
    /\ search_ants = <<>>
    /\ ant_i = 0
    /\ steps = 0
    /\ expired = FALSE
    /\ solution = <<>>
    /\ process = <<>>
    /\ deposits = 0
    /\ improved = {}
    /\ no_improve = <<>>

\* solve_with_aco up to find_shortest_path: ACO(...) with
\* best_path_cost=cevrp.optimal_value, and __post_init__, which sets the
\* counter and every edge's pheromones to max_pheromone_level
InitMMAS ==
    /\ \E i \in DOMAIN AcoInstances : cevrp = AcoInstances[i]
    /\ pcM = "iterate"
    /\ pheromones = [ e \in Edges |-> max_pheromone_level ]
    /\ aco = [ best_path |-> <<>>,
               best_path_cost |-> cevrp.optimal_value,
               second_best_path |-> <<>>,
               second_best_path_cost |-> inf,
               current_best_path_cost |-> inf,
               last_best_path_cost |-> inf,
               max_iteration_improvement |-> MaxNoImprove,
               max_iteration_improvement_counter |-> MaxNoImprove ]
    /\ aco_iteration = 0
    /\ search_ants = <<>>
    /\ ant_i = 0
    /\ steps = 0
    /\ expired = FALSE
    /\ solution = <<>>
    /\ process = [ printed |-> "", alns_phase |-> FALSE, exit_status |-> -1 ]
    /\ deposits = 0
    /\ improved = {}
    /\ no_improve = [ streak |-> 0, cost |-> inf ]
    /\ pcA = "idle"
    /\ destroy_operators = {}
    /\ repair_operators = {}
    /\ curr = CevrpState(<<>>, <<>>, None)
    /\ best = CevrpState(<<>>, <<>>, None)
    /\ destroyed = CevrpState(<<>>, <<>>, None)
    /\ cand = None
    /\ iteration = 0
    /\ init_obj = 0
    /\ d_name = ""
    /\ r_name = ""
    /\ ls_name = ""
    /\ twin = None
    /\ pcE = "idle"
    /\ nodes_in = <<>>
    /\ energy_out = 0
    /\ CopyIdle
    /\ CallIdle

\* the head of _deploy_search_ants' loop and _initialize_ants: every ant of
\* the iteration is created with the best_path_cost of this moment
InitializeAnts ==
    /\ pcM = "iterate"
    /\ aco_iteration < NumAcoIterations
    /\ aco_iteration' = aco_iteration + 1
    /\ search_ants' = [ k \in 1..NumAnts |-> NewAnt(aco.best_path_cost) ]
    /\ ant_i' = 1
    /\ steps' = 0
    /\ pcM' = "forward"
    /\ improved' = {}
    /\ UNCHANGED <<cevrp, alnsVars, pureVars, copyVars, callVars, pheromones, aco, expired, solution,
                   deposits, no_improve, process>>

\* TakeStep with a local update: the ant evaporates the edge it walks
TakeStepEvaporating ==
    /\ pcM = "forward"
    /\ steps < MaxAntSteps
    /\ ~Raised(choose_next_node(search_ants[ant_i]))
    /\ search_ants' = [ search_ants EXCEPT ![ant_i] = take_step(@) ]
    /\ pheromones' =
          [ e \in Edges |->
              IF e = <<search_ants[ant_i].current_node, choose_next_node(search_ants[ant_i])>>
              THEN RatMul(evaporation_rate, pheromones[e]) ELSE pheromones[e] ]
    /\ steps' = steps + 1
    /\ pcM' = IF \/ reached_destination(take_step(search_ants[ant_i]))
                 \/ steps + 1 >= MaxAntSteps
              THEN "update" ELSE "forward"
    /\ UNCHANGED <<cevrp, alnsVars, pureVars, copyVars, callVars, aco, aco_iteration, ant_i,
                   expired, solution, deposits, no_improve, process, improved>>

\* TakeStep with a reinforcement on the way: the ant doubles the pheromone of
\* the edge it walks, so the next ant of the iteration meets other levels
TakeStepReinforcing ==
    /\ pcM = "forward"
    /\ steps < MaxAntSteps
    /\ ~Raised(choose_next_node(search_ants[ant_i]))
    /\ search_ants' =
          [ search_ants EXCEPT ![ant_i] =
              IF reached_destination(take_step(@))
              THEN [ take_step(@) EXCEPT
                       !.is_fit = are_valid_paths(take_step(search_ants[ant_i]).paths) ]
              ELSE take_step(@) ]
    /\ pheromones' =
          [ e \in Edges |->
              IF e = <<search_ants[ant_i].current_node, choose_next_node(search_ants[ant_i])>>
              THEN RatMul(<<2, 1>>, pheromones[e]) ELSE pheromones[e] ]
    /\ steps' = steps + 1
    /\ pcM' = IF \/ reached_destination(take_step(search_ants[ant_i]))
                 \/ steps + 1 >= MaxAntSteps
              THEN "update" ELSE "forward"
    /\ UNCHANGED <<cevrp, alnsVars, pureVars, copyVars, callVars, aco, aco_iteration, ant_i,
                   expired, solution, deposits, no_improve, process, improved>>

\* one round of _ant_exploration's loop: take_step, then the test that
\* ends the loop, marking the ant fit if every path has more than 4 nodes
TakeStep ==
    /\ pcM = "forward"
    /\ steps < MaxAntSteps
    /\ IF Raised(choose_next_node(search_ants[ant_i]))
       THEN /\ pcM' = "crashed"
            /\ UNCHANGED <<search_ants, steps>>
       ELSE /\ search_ants' =
                  [ search_ants EXCEPT ![ant_i] =
                      IF reached_destination(take_step(@))
                      THEN [ take_step(@) EXCEPT
                               !.is_fit = are_valid_paths(take_step(search_ants[ant_i]).paths) ]
                      ELSE take_step(@) ]
            /\ steps' = steps + 1
            /\ pcM' = IF \/ reached_destination(take_step(search_ants[ant_i]))
                         \/ steps + 1 >= MaxAntSteps
                      THEN "update" ELSE "forward"
    /\ UNCHANGED <<cevrp, alnsVars, pureVars, copyVars, callVars, pheromones, aco, aco_iteration, ant_i,
                   expired, solution, deposits, no_improve, process, improved>>

\* the ant covered the graph, each of its paths has more than 4 nodes, and
\* its cost is below the best or the second-best cost recorded so far
Improves(ant) ==
    /\ reached_destination(ant)
    /\ are_valid_paths(ant.paths)
    /\ \/ ant.path_cost < aco.best_path_cost
       \/ ant.path_cost < aco.second_best_path_cost

\* UpdateBestPath whose second test compares with best_path_cost again, so
\* that an ant that only beats the second best is marked unfit
UpdateBestPathBestOnly ==
    /\ pcM = "update"
    /\ IF ~search_ants[ant_i].is_fit
       THEN UNCHANGED <<aco, search_ants>>
       ELSE IF search_ants[ant_i].path_cost < aco.best_path_cost
       THEN /\ aco' = [ aco EXCEPT
                          !.second_best_path_cost = aco.best_path_cost,
                          !.second_best_path = aco.best_path,
                          !.best_path_cost = search_ants[ant_i].path_cost,
                          !.best_path = search_ants[ant_i].paths ]
            /\ UNCHANGED search_ants
       ELSE /\ search_ants' = [ search_ants EXCEPT ![ant_i].is_fit = FALSE ]
            /\ UNCHANGED aco
    /\ steps' = 0
    /\ ant_i' = IF ant_i = Len(search_ants) THEN 1 ELSE ant_i + 1
    /\ pcM' = IF ant_i = Len(search_ants) THEN "backward" ELSE "forward"
    /\ improved' = IF Improves(search_ants[ant_i]) THEN improved \cup {ant_i} ELSE improved
    /\ UNCHANGED <<cevrp, alnsVars, pureVars, copyVars, callVars, pheromones, aco_iteration, expired,
                   solution, deposits, no_improve, process>>

\* _update_best_path for the ant that finished exploring, and the step of
\* _deploy_forward_search to the next ant
UpdateBestPath ==
    /\ pcM = "update"
    /\ IF ~search_ants[ant_i].is_fit
       THEN UNCHANGED <<aco, search_ants>>
       ELSE IF search_ants[ant_i].path_cost < aco.best_path_cost
       THEN /\ aco' = [ aco EXCEPT
                          !.second_best_path_cost = aco.best_path_cost,
                          !.second_best_path = aco.best_path,
                          !.best_path_cost = search_ants[ant_i].path_cost,
                          !.best_path = search_ants[ant_i].paths ]
            /\ UNCHANGED search_ants
       ELSE IF search_ants[ant_i].path_cost < aco.second_best_path_cost
       THEN /\ aco' = [ aco EXCEPT
                          !.second_best_path_cost = search_ants[ant_i].path_cost,
                          !.second_best_path = search_ants[ant_i].paths,
                          !.current_best_path_cost = search_ants[ant_i].path_cost ]
            /\ UNCHANGED search_ants
       ELSE /\ search_ants' = [ search_ants EXCEPT ![ant_i].is_fit = FALSE ]
            /\ UNCHANGED aco
    /\ steps' = 0
    /\ ant_i' = IF ant_i = Len(search_ants) THEN 1 ELSE ant_i + 1
    /\ pcM' = IF ant_i = Len(search_ants) THEN "backward" ELSE "forward"
    /\ improved' = IF Improves(search_ants[ant_i]) THEN improved \cup {ant_i} ELSE improved
    /\ UNCHANGED <<cevrp, alnsVars, pureVars, copyVars, callVars, pheromones, aco_iteration, expired,
                   solution, deposits, no_improve, process>>

\* one round of _deploy_backward_search's loop: a fit ant deposits on its
\* paths; calculate_min_phi raises for a graph of at most 2 nodes
DepositPheromones ==
    /\ pcM = "backward"
    /\ IF ~search_ants[ant_i].is_fit
       THEN /\ pcM' = IF ant_i = Len(search_ants) THEN "found" ELSE "backward"
            /\ UNCHANGED <<pheromones, deposits>>
       ELSE IF get_length_graph <= 2
       THEN /\ pcM' = "crashed"
            /\ UNCHANGED <<pheromones, deposits>>
       ELSE /\ pheromones' = deposit_pheromones_on_paths(pheromones, search_ants[ant_i].paths,
                                                         search_ants[ant_i].best_path_cost)
            /\ deposits' = deposits + 1
            /\ pcM' = IF ant_i = Len(search_ants) THEN "found" ELSE "backward"
    /\ ant_i' = IF ant_i = Len(search_ants) THEN ant_i ELSE ant_i + 1
    /\ UNCHANGED <<cevrp, alnsVars, pureVars, copyVars, callVars, aco, aco_iteration, search_ants, steps,
                   expired, solution, no_improve, process, improved>>

\* _found_better_solution
found_better_solution(a) ==
    IF a.current_best_path_cost < a.last_best_path_cost
    THEN [ a EXCEPT !.last_best_path_cost = a.current_best_path_cost,
                    !.max_iteration_improvement_counter = a.max_iteration_improvement ]
    ELSE [ a EXCEPT !.max_iteration_improvement = @ - 1 ]

\* the tail of the loop body: _found_better_solution, the poll of the clock
\* and the break; the loop also ends after num_iterations rounds
FoundBetterSolution ==
    /\ pcM = "found"
    /\ aco' = found_better_solution(aco)
    /\ \E late \in BOOLEAN :
          /\ expired' = late
          /\ pcM' = IF \/ found_better_solution(aco).max_iteration_improvement_counter <= 0
                       \/ late
                       \/ aco_iteration >= NumAcoIterations
                    THEN "return" ELSE "iterate"
    /\ no_improve' =
          IF get_best_solution_found(aco)[2] < no_improve.cost
          THEN [ streak |-> 0, cost |-> get_best_solution_found(aco)[2] ]
          ELSE [ no_improve EXCEPT !.streak = @ + 1 ]
    /\ UNCHANGED <<cevrp, alnsVars, pureVars, copyVars, callVars, pheromones, aco_iteration, search_ants,
                   ant_i, steps, solution, deposits, process, improved>>

\* find_shortest_path's return
GetBestSolutionFound ==
    /\ pcM = "return"
    /\ solution' = get_best_solution_found(aco)
    /\ pcM' = "done"
    /\ UNCHANGED <<cevrp, alnsVars, pureVars, copyVars, callVars, pheromones, aco, aco_iteration,
                   search_ants, ant_i, steps, expired, deposits, no_improve, process, improved>>

\* solve_with_aco raises NoSolutionFoundError for the empty solution; main's
\* except clause prints it and the script ends there
NoSolutionFound ==
    /\ pcM = "done"
    /\ solution[1] = <<>> /\ solution[2] = inf /\ solution[3] = <<>>
    /\ process' = [ printed |-> "ACO did not find a valid solution.",
                    alns_phase |-> FALSE, exit_status |-> 0 ]
    /\ pcM' = "exited"
    /\ UNCHANGED <<cevrp, alnsVars, pureVars, copyVars, callVars, pheromones, aco, aco_iteration,
                   search_ants, ant_i, steps, expired, solution, deposits, no_improve, improved>>

\* main goes on to solve_with_alns; the script ends with status 0, or with
\* status 1 when an exception other than NoSolutionFoundError leaves it
SolveWithAlns ==
    /\ pcM = "done"
    /\ ~(solution[1] = <<>> /\ solution[2] = inf /\ solution[3] = <<>>)
    /\ \E raised \in BOOLEAN :
          process' = [ printed |-> "", alns_phase |-> TRUE,
                       exit_status |-> IF raised THEN 1 ELSE 0 ]
    /\ pcM' = "exited"
    /\ UNCHANGED <<cevrp, alnsVars, pureVars, copyVars, callVars, pheromones, aco, aco_iteration,
                   search_ants, ant_i, steps, expired, solution, deposits, no_improve, improved>>

\* an exception of the MMAS phase is not caught by main
Uncaught ==
    /\ pcM = "crashed"
    /\ process' = [ process EXCEPT !.exit_status = 1 ]
    /\ pcM' = "exited"
    /\ UNCHANGED <<cevrp, alnsVars, pureVars, copyVars, callVars, pheromones, aco, aco_iteration,
                   search_ants, ant_i, steps, expired, solution, deposits, no_improve, improved>>

NextMMAS ==
    \/ InitializeAnts
    \/ TakeStep
    \/ UpdateBestPath
    \/ DepositPheromones
    \/ FoundBetterSolution
    \/ GetBestSolutionFound
    \/ NoSolutionFound
    \/ SolveWithAlns
    \/ Uncaught

SpecMMAS == InitMMAS /\ [][NextMMAS]_vars

-----------------------------------------------------------------------------
(* make_alns and the iterate loop of the ALNS engine it configures:        *)
(* RouletteWheel selection (every registered operator keeps a positive     *)
(* weight, so any pair can be drawn), RecordToRecordTravel acceptance      *)
(* autofitted to 2% of the initial objective decaying linearly to 0,       *)
(* MaxIterations, and apply_local_search on every new best.                *)

\* the operator lists make_alns is run with: its own defaults, and main's
DefaultOperators ==
    [ destroy |-> {"remove_overcapacity_nodes"}, repair |-> {"smart_reinsertion"} ]

MainOperators ==
    [ destroy |-> {"remove_charging_station", "worst_removal", "cluster_removal"},
      repair  |-> {"greedy_insertion", "regret_k_insertion", "best_feasible_insertion"} ]

\* the runs the ALNS phase is explored for: an instance, the operator lists,
\* and whether the MMAS phase before it ended on the deadline
AlnsRuns ==
    { <<i, ops, FALSE>> : i \in DOMAIN Instances, ops \in {MainOperators, DefaultOperators} }
        \cup { <<1, MainOperators, TRUE>> }

\* the customer-only routes handed to solve_with_alns
InitialState ==
    CevrpState([ k \in DOMAIN cevrp.routes |->
                   Path(cevrp.routes[k], calculate_path_cost(cevrp.routes[k]),
                        get_total_demand_path(cevrp.routes[k]), 0, FALSE) ],
               <<>>, None)

\* solve_with_alns starts when the MMAS phase is over: expired is what that
\* phase last read off the clock, and a deadline that has passed stays passed
MmasOver ==
    /\ pcM = "idle"
    /\ pheromones = <<>>
    /\ aco = <<>>
    /\ aco_iteration = 0
    /\ search_ants = <<>>
    /\ ant_i = 0
    /\ steps = 0
    /\ expired \in BOOLEAN
    /\ solution = <<>>
    /\ process = <<>>
    /\ deposits = 0
    /\ improved = {}
    /\ no_improve = <<>>

InitALNS ==
    /\ \E run \in AlnsRuns :
          /\ cevrp = Instances[run[1]]
          /\ destroy_operators = run[2].destroy
          /\ repair_operators = run[2].repair
          /\ expired = run[3]
    /\ pcA = "start"
    /\ curr = InitialState
    /\ best = InitialState
    /\ destroyed = InitialState
    /\ cand = None
    /\ iteration = 0
    /\ init_obj = 0
    /\ d_name = ""
    /\ r_name = ""
    /\ ls_name = ""
    /\ twin = Some(InitialState)
    /\ pcE = "idle"
    /\ nodes_in = <<>>
    /\ energy_out = 0
    /\ CopyIdle
    /\ CallIdle
    /\ MmasOver

\* make_alns up to the call of iterate
MakeAlns ==
    /\ pcA = "start"
    /\ LET initial_state == insert_charging_stations_after_each_node(curr)
       IN /\ curr' = initial_state
          /\ best' = initial_state
          /\ destroyed' = initial_state
          /\ init_obj' = objective(initial_state)
          /\ twin' = Some(initial_state)
    /\ pcA' = "select"
    /\ UNCHANGED <<cevrp, destroy_operators, repair_operators, cand, iteration,
                   d_name, r_name, ls_name, pureVars, copyVars, callVars, mmasVars>>

\* MaxIterations: the loop ends once num_iterations iterations have run
Stop ==
    /\ pcA = "select"
    /\ iteration >= NumIterations
    /\ pcA' = "done"
    /\ UNCHANGED <<cevrp, destroy_operators, repair_operators, curr, best, destroyed, cand,
                   iteration, init_obj, d_name, r_name, ls_name, pureVars, copyVars, callVars, mmasVars, twin>>

\* destroyed = d_operator(curr, rng) for the drawn operator
Destroy(name, results) ==
    /\ pcA = "select"
    /\ iteration < NumIterations
    /\ name \in destroy_operators
    /\ \E d \in results : destroyed' = d
    /\ d_name' = name
    /\ pcA' = "destroyed"
    /\ UNCHANGED <<cevrp, destroy_operators, repair_operators, curr, best, cand,
                   iteration, init_obj, r_name, ls_name, pureVars, copyVars, callVars, mmasVars, twin>>

\* an exception leaves iterate and make_alns; main does not catch it
Raise ==
    /\ pcA' = "crashed"
    /\ UNCHANGED <<cevrp, destroy_operators, repair_operators, curr, best, destroyed, cand,
                   iteration, init_obj, d_name, r_name, ls_name, pureVars, copyVars, callVars, mmasVars, twin>>

RemoveOvercapacityNodes ==
    /\ ~OvercapRaises(curr)
    /\ Destroy("remove_overcapacity_nodes", remove_overcapacity_nodes(curr))

RemoveOvercapacityNodesRaises ==
    /\ pcA = "select"
    /\ iteration < NumIterations
    /\ "remove_overcapacity_nodes" \in destroy_operators
    /\ OvercapRaises(curr)
    /\ Raise

RemoveChargingStation == Destroy("remove_charging_station", remove_charging_station(curr))

WorstRemoval == Destroy("worst_removal", { worst_removal(curr) })

ClusterRemoval == Destroy("cluster_removal", cluster_removal(curr))

\* cand = r_operator(destroyed, rng) for the drawn operator
Repair(name, results) ==
    /\ pcA = "destroyed"
    /\ name \in repair_operators
    /\ \E c \in results : cand' = c
    /\ r_name' = name
    /\ pcA' = "repaired"
    /\ UNCHANGED <<cevrp, destroy_operators, repair_operators, curr, best, destroyed,
                   iteration, init_obj, d_name, ls_name, pureVars, copyVars, callVars, mmasVars, twin>>

SmartReinsertion == Repair("smart_reinsertion", smart_reinsertion(destroyed))

GreedyInsertion == Repair("greedy_insertion", { greedy_insertion(destroyed) })

RegretKInsertion == Repair("regret_k_insertion", { regret_k_insertion(destroyed) })

BestFeasibleInsertion == Repair("best_feasible_insertion", { best_feasible_insertion(destroyed) })

\* RecordToRecordTravel at its call number `iteration`: the gap to the best
\* is at most 0.02 * init_obj * (N - iteration) / N
Accepts(candidate) ==
    (objective(candidate) - objective(best)) * 50 * NumIterations
        <= init_obj * (NumIterations - iteration)

\* _eval_cand without a new best: REJECT keeps curr, ACCEPT and BETTER move it.
\* A repair operator that returned None makes cand.objective() raise.
EvalCand ==
    /\ pcA = "repaired"
    /\ IF cand = None THEN Raise
       ELSE /\ objective(cand[1]) >= objective(best)
            /\ curr' = IF Accepts(cand[1]) THEN cand[1] ELSE curr
            /\ iteration' = iteration + 1
            /\ pcA' = "select"
            /\ UNCHANGED <<cevrp, destroy_operators, repair_operators, best, destroyed, cand,
                           init_obj, d_name, r_name, ls_name, pureVars, copyVars, callVars, mmasVars, twin>>

\* the second solve draws everything the engine's Generator(SEED) decides as
\* this one does; what apply_local_search's operator draws inside is its own
\* (operator(state) is called without rng).  Once the two solves differ before
\* the last iteration the second one is no longer followed.
TwinBest(s, other) ==
    IF twin = None THEN None
    ELSE IF other = s THEN Some(s)
    ELSE IF iteration + 1 = NumIterations THEN Some(other)
    ELSE None

\* _eval_cand with a new best: the on_best callback rewrites cand in place,
\* then best and curr both become cand
OnBest(name, results) ==
    /\ pcA = "repaired"
    /\ cand # None
    /\ objective(cand[1]) < objective(best)
    /\ \E s \in results :
          /\ cand' = Some(s)
          /\ best' = s
          /\ curr' = s
          /\ \E other \in results : twin' = TwinBest(s, other)
    /\ ls_name' = name
    /\ iteration' = iteration + 1
    /\ pcA' = "select"
    /\ UNCHANGED <<cevrp, destroy_operators, repair_operators, destroyed,
                   init_obj, d_name, r_name, pureVars, copyVars, callVars, mmasVars>>

AdjacentSwapLocalSearch ==
    OnBest("adjacent_swap_local_search", { adjacent_swap_local_search(cand[1]) })

GeneralSwapLocalSearch ==
    OnBest("general_swap_local_search", { general_swap_local_search(cand[1]) })

SingleInsertionLocalSearch ==
    OnBest("single_insertion_local_search", { single_insertion_local_search(cand[1]) })

SearchReverseLocationLocalSearch ==
    OnBest("search_reverse_location_local_search",
           { search_reverse_location_local_search(cand[1]) })

BlockInsertionLocalSearch ==
    OnBest("block_insertion_local_search", block_insertion_local_search(cand[1]))

BlockInsertionLocalSearchRaises ==
    /\ pcA = "repaired"
    /\ cand # None
    /\ objective(cand[1]) < objective(best)
    /\ BlockRaises(cand[1])
    /\ Raise

NextALNS ==
    \/ MakeAlns
    \/ Stop
    \/ RemoveOvercapacityNodes
    \/ RemoveOvercapacityNodesRaises
    \/ RemoveChargingStation
    \/ WorstRemoval
    \/ ClusterRemoval
    \/ SmartReinsertion
    \/ GreedyInsertion
    \/ RegretKInsertion
    \/ BestFeasibleInsertion
    \/ EvalCand
    \/ AdjacentSwapLocalSearch
    \/ GeneralSwapLocalSearch
    \/ SingleInsertionLocalSearch
    \/ SearchReverseLocationLocalSearch
    \/ BlockInsertionLocalSearch
    \/ BlockInsertionLocalSearchRaises

SpecALNS == InitALNS /\ [][NextALNS]_vars

-----------------------------------------------------------------------------
(* The pure-function harness: calculate_path_energy on route-shaped node   *)
(* sequences (depot first and last, no depot inside, no node twice in a    *)
(* row).                                                                   *)

RECURSIVE SeqsOfLen(_, _)
SeqsOfLen(S, n) ==
    IF n = 0 THEN { <<>> }
    ELSE { Append(s, x) : s \in SeqsOfLen(S, n - 1), x \in S }

RouteShaped(s) ==
    /\ Len(s) >= 2
    /\ s[1] = DEFAULT_SOURCE_NODE /\ s[Len(s)] = DEFAULT_SOURCE_NODE
    /\ \A i \in 2..(Len(s) - 1) : s[i] # DEFAULT_SOURCE_NODE
    /\ \A i \in 1..(Len(s) - 1) : s[i] # s[i + 1]

RouteInputs ==
    UNION { { s \in SeqsOfLen(GraphNodes, n) : RouteShaped(s) } : n \in 2..MaxLen }

InitEnergy ==
    /\ cevrp = Instances[1]
    /\ pcE = "input"
    /\ nodes_in \in RouteInputs
    /\ energy_out = 0
    /\ CopyIdle
    /\ CallIdle
    /\ pcA = "idle"
    /\ destroy_operators = {}
    /\ repair_operators = {}
    /\ curr = InitialState
    /\ best = InitialState
    /\ destroyed = InitialState
    /\ cand = None
    /\ iteration = 0
    /\ init_obj = 0
    /\ d_name = ""
    /\ r_name = ""
    /\ ls_name = ""
    /\ twin = None
    /\ MmasIdle

ComputeEnergy ==
    /\ pcE = "input"
    /\ energy_out' = calculate_path_energy(nodes_in)
    /\ pcE' = "done"
    /\ UNCHANGED <<cevrp, nodes_in, alnsVars, copyVars, callVars, mmasVars>>

NextEnergy == ComputeEnergy

SpecEnergy == InitEnergy /\ [][NextEnergy]_vars

-----------------------------------------------------------------------------
(* The harness of CevrpState.copy: a state is built, copied, and the copy  *)
(* is written to the way the operators write to their state_copy.          *)

CopyRoutes ==
    { <<"1", "2", "3", "4", "1">>, <<"1", "2", "5", "3", "1">>, <<"1", "4", "1">>,
      <<"1", "5", "3", "5", "1">> }

StoredPath(nodes) ==
    Path(nodes, calculate_path_cost(nodes), get_total_demand_path(nodes),
         calculate_path_energy(nodes), TRUE)

CopyInputs ==
    { CevrpState([ k \in DOMAIN routes |-> StoredPath(routes[k]) ], unassigned, None)
      : routes \in SeqsOfLen(CopyRoutes, 1) \cup SeqsOfLen(CopyRoutes, 2),
        unassigned \in { <<>>, <<"3">>, <<"2">> } }

InitCopy ==
    /\ cevrp = Instances[1]
    /\ pcC = "built"
    /\ \E state \in CopyInputs :
          /\ heap = BuildState(state)
          /\ s_ref = Len(BuildState(state))
    /\ c_ref = 0
    /\ s_before = None
    /\ mutations = 0
    /\ pcE = "idle"
    /\ nodes_in = <<>>
    /\ energy_out = 0
    /\ pcA = "idle"
    /\ destroy_operators = {}
    /\ repair_operators = {}
    /\ curr = InitialState
    /\ best = InitialState
    /\ destroyed = InitialState
    /\ cand = None
    /\ iteration = 0
    /\ init_obj = 0
    /\ d_name = ""
    /\ r_name = ""
    /\ ls_name = ""
    /\ twin = None
    /\ CallIdle
    /\ MmasIdle

\* state_copy = state.copy()
CallCopy ==
    /\ pcC = "built"
    /\ heap' = StateCopy(heap, s_ref)
    /\ c_ref' = Len(StateCopy(heap, s_ref))
    /\ s_before' = Some(Deref(heap, s_ref))
    /\ pcC' = "copied"
    /\ UNCHANGED <<cevrp, s_ref, mutations, alnsVars, pureVars, callVars, mmasVars>>

\* candidate_path.nodes.insert(insert_position, node) on a route of the copy
NodesInsert ==
    /\ pcC = "copied" /\ mutations < MaxMutations
    /\ \E k \in DOMAIN heap[heap[c_ref].paths].refs, node \in { "3", "6" } :
          \E insert_position \in 1..(Len(heap[heap[heap[heap[c_ref].paths].refs[k]].nodes].items) - 1) :
             heap' = [ heap EXCEPT ![heap[heap[heap[c_ref].paths].refs[k]].nodes].items =
                                       InsertAt(@, insert_position, node) ]
    /\ mutations' = mutations + 1
    /\ UNCHANGED <<cevrp, pcC, s_ref, c_ref, s_before, alnsVars, pureVars, callVars, mmasVars>>

\* path.nodes[:] = modified_nodes, then the route's attributes are set anew
RewritePath ==
    /\ pcC = "copied" /\ mutations < MaxMutations
    /\ \E k \in DOMAIN heap[heap[c_ref].paths].refs, modified_nodes \in CopyRoutes :
          heap' = [ heap EXCEPT
             ![heap[heap[heap[c_ref].paths].refs[k]].nodes].items = modified_nodes,
             ![heap[heap[c_ref].paths].refs[k]].path_cost = calculate_path_cost(modified_nodes),
             ![heap[heap[c_ref].paths].refs[k]].energy = calculate_path_energy(modified_nodes),
             ![heap[heap[c_ref].paths].refs[k]].demand = get_total_demand_path(modified_nodes),
             ![heap[heap[c_ref].paths].refs[k]].feasible =
                 (calculate_path_energy(modified_nodes) <= cevrp.energy_capacity) ]
    /\ mutations' = mutations + 1
    /\ UNCHANGED <<cevrp, pcC, s_ref, c_ref, s_before, alnsVars, pureVars, callVars, mmasVars>>

\* state_copy.unassigned.append(node)
UnassignedAppend ==
    /\ pcC = "copied" /\ mutations < MaxMutations
    /\ \E node \in { "2", "4" } :
          heap' = [ heap EXCEPT ![heap[c_ref].unassigned].items = Append(@, node) ]
    /\ mutations' = mutations + 1
    /\ UNCHANGED <<cevrp, pcC, s_ref, c_ref, s_before, alnsVars, pureVars, callVars, mmasVars>>

\* ---- the destroy and repair operators on the heap: each starts with
\* state_copy = state.copy(), writes to the copy and to objects it makes, and
\* returns a new state, its argument, or state.previous_state

\* state_copy.unassigned.append / extend / remove: the copy's list is written
WriteUnassigned(h, c, items) == [ h EXCEPT ![h[c].unassigned].items = items ]

\* state_copy.unassigned = [] and the appends to it: the copy gets a new list
RebindUnassigned(h, c, items) ==
    [ Append(h, StrList(items)) EXCEPT ![c].unassigned = Len(h) + 1 ]

\* CevrpState(modified_paths, state_copy.unassigned, ...): a new state over a
\* new list of routes and the unassigned list of the copy
ReturnState(h, c, paths, previous_state) ==
    Append(Append(BuildPaths(h, paths, <<>>).heap, RefList(BuildPaths(h, paths, <<>>).refs)),
           [ kind |-> "CevrpState", paths |-> Len(BuildPaths(h, paths, <<>>).heap) + 1,
             unassigned |-> h[c].unassigned, previous_state |-> previous_state ])

\* what a call of the operator does: whether it binds a new unassigned list,
\* what the copy's unassigned list holds in the end, what it returns, and
\* whether that is its argument ('return state')
OperatorRuns(name, state) ==
    CASE name = "remove_charging_station" ->
           { [ rebinds |-> FALSE, unassigned |-> state.unassigned, result |-> Some(r),
               same |-> FALSE ]
             : r \in remove_charging_station(state) }
      [] name = "worst_removal" ->
           { [ rebinds |-> FALSE, unassigned |-> worst_removal(state).unassigned,
               result |-> Some(worst_removal(state)), same |-> FALSE ] }
      [] name = "cluster_removal" ->
           { [ rebinds |-> FALSE, unassigned |-> r.unassigned, result |-> Some(r),
               same |-> r = state ]
             : r \in cluster_removal(state) }
      [] name = "greedy_insertion" ->
           { [ rebinds |-> TRUE,
               unassigned |-> GreedyLoop(state.unassigned, state.paths, <<>>).unassigned,
               result |-> greedy_insertion(state), same |-> FALSE ] }
      [] name = "regret_k_insertion" ->
           { [ rebinds |-> TRUE,
               unassigned |-> RegretLoop(state.unassigned, state.paths).unassigned,
               result |-> regret_k_insertion(state), same |-> FALSE ] }
      [] name = "best_feasible_insertion" ->
           { [ rebinds |-> FALSE,
               unassigned |-> BestFeasibleLoop(state.unassigned, state.paths,
                                               state.unassigned).unassigned,
               result |-> best_feasible_insertion(state), same |-> FALSE ] }

\* the heap and the reference returned once the run has written to the copy c
OperatorReturn(h, s, c, run) ==
    IF run.result = None THEN [ heap |-> h, ret |-> h[s].previous_state ]
    ELSE IF run.same THEN [ heap |-> h, ret |-> s ]
    ELSE [ heap |-> ReturnState(h, c, run.result[1].paths,
                                IF run.result[1].previous_state = None THEN 0 ELSE s),
           ret |-> Len(ReturnState(h, c, run.result[1].paths, 0)) ]

Operator(name) ==
    /\ pcC = "built"
    /\ \E run \in OperatorRuns(name, Deref(heap, s_ref)) :
          /\ heap' = OperatorReturn(
                         IF run.rebinds
                         THEN RebindUnassigned(StateCopy(heap, s_ref),
                                               Len(StateCopy(heap, s_ref)), run.unassigned)
                         ELSE WriteUnassigned(StateCopy(heap, s_ref),
                                              Len(StateCopy(heap, s_ref)), run.unassigned),
                         s_ref, Len(StateCopy(heap, s_ref)), run).heap
          /\ ret' = OperatorReturn(
                         IF run.rebinds
                         THEN RebindUnassigned(StateCopy(heap, s_ref),
                                               Len(StateCopy(heap, s_ref)), run.unassigned)
                         ELSE WriteUnassigned(StateCopy(heap, s_ref),
                                              Len(StateCopy(heap, s_ref)), run.unassigned),
                         s_ref, Len(StateCopy(heap, s_ref)), run).ret
    /\ c_ref' = Len(StateCopy(heap, s_ref))
    /\ call' = [ fn |-> name ]
    /\ s_before' = Some(Deref(heap, s_ref))
    /\ pcC' = "returned"
    /\ UNCHANGED <<cevrp, s_ref, mutations, pcF, alnsVars, pureVars, mmasVars>>

NextCopy ==
    \/ CallCopy
    \/ NodesInsert
    \/ RewritePath
    \/ UnassignedAppend
    \/ Operator("remove_charging_station")
    \/ Operator("worst_removal")
    \/ Operator("cluster_removal")
    \/ Operator("greedy_insertion")
    \/ Operator("regret_k_insertion")
    \/ Operator("best_feasible_insertion")

SpecCopy == InitCopy /\ [][NextCopy]_vars

-----------------------------------------------------------------------------
(* The harness of the functions called on their own: one call, drawn with  *)
(* its arguments, and its return value.                                    *)

\* find_best_charging_station(state, last_node, B, h, stations, current_energy)
FindStationCalls ==
    { [ fn |-> "find_best_charging_station", last_node |-> n, current_energy |-> e ]
      : n \in GraphNodes, e \in 0..(cevrp.energy_capacity + 1) }

\* routes over the depot and the nodes of S: depot first and last, no customer
\* twice, a customer among them, within Q and within B
RoutesOver(S) ==
    { r \in UNION { SeqsOfLen(S \cup {DEFAULT_SOURCE_NODE}, n) : n \in 3..MaxLen } :
        /\ RouteShaped(r)
        /\ \A i, j \in DOMAIN r : (i < j /\ r[i] = r[j]) => r[i] \notin Customers
        /\ Range(r) \cap Customers # {}
        /\ get_total_demand_path(r) <= cevrp.capacity
        /\ calculate_path_energy(r) <= cevrp.energy_capacity
        /\ MaxSegmentEnergy(r) <= cevrp.energy_capacity }

\* what a destroy operator hands to a repair operator: two routes and the
\* customers it took out of them
RepairInputs ==
    { CevrpState(<<StoredPath(r1), StoredPath(r2)>>, unassigned, None)
      : r1 \in RoutesOver({"3", "4", "5"}), r2 \in RoutesOver({"7", "8", "6"}),
        unassigned \in { <<"2">>, <<"9">>, <<"2", "9">>, <<"9", "2">> } }

RepairCalls(fn) == { [ fn |-> fn, state |-> s ] : s \in RepairInputs }

\* the routes main.py gives to apply_2opt: customer-only routes of the MMAS
\* phase, within Q, with the cost the ant added up
CustomerRoutes ==
    { r \in UNION { SeqsOfLen({"1", "2", "3", "4"}, n) : n \in 3..MaxLen } :
        /\ RouteShaped(r)
        /\ \A i, j \in DOMAIN r : (i < j /\ r[i] = r[j]) => r[i] = DEFAULT_SOURCE_NODE
        /\ get_total_demand_path(r) <= cevrp.capacity }

TwoOptCalls ==
    { [ fn |-> "apply_2opt",
        path |-> Path(r, calculate_path_cost(r), get_total_demand_path(r), 0, FALSE) ]
      : r \in CustomerRoutes }

\* the lists main.py gives to apply_2opt_star: one or two routes that share
\* no customer
TwoOptStarCalls ==
    { [ fn |-> "apply_2opt_star", paths |-> [ k \in DOMAIN rs |->
            Path(rs[k], calculate_path_cost(rs[k]), get_total_demand_path(rs[k]), 0, FALSE) ] ]
      : rs \in { l \in SeqsOfLen(CustomerRoutes, 1) \cup SeqsOfLen(CustomerRoutes, 2) :
                   \A a, b \in DOMAIN l :
                       a < b => Range(l[a]) \cap Range(l[b]) = {DEFAULT_SOURCE_NODE} } }

Calls ==
    FindStationCalls \cup RepairCalls("greedy_insertion")
        \cup RepairCalls("regret_k_insertion") \cup TwoOptCalls
        \cup TwoOptStarCalls

InitCalls ==
    /\ cevrp = Instances[2]
    /\ pcF = "input"
    /\ call \in Calls
    /\ ret = <<>>
    /\ pcE = "idle"
    /\ nodes_in = <<>>
    /\ energy_out = 0
    /\ CopyIdle
    /\ pcA = "idle"
    /\ destroy_operators = {}
    /\ repair_operators = {}
    /\ curr = InitialState
    /\ best = InitialState
    /\ destroyed = InitialState
    /\ cand = None
    /\ iteration = 0
    /\ init_obj = 0
    /\ d_name = ""
    /\ r_name = ""
    /\ ls_name = ""
    /\ twin = None
    /\ MmasIdle

Return(value) ==
    /\ pcF = "input"
    /\ ret' = value
    /\ pcF' = "done"
    /\ UNCHANGED <<cevrp, call, alnsVars, pureVars, copyVars, mmasVars>>

FindBestChargingStation ==
    /\ call.fn = "find_best_charging_station"
    /\ Return(find_best_charging_station(call.last_node, call.current_energy))

CallGreedyInsertion ==
    /\ call.fn = "greedy_insertion"
    /\ Return(greedy_insertion(call.state))

CallRegretKInsertion ==
    /\ call.fn = "regret_k_insertion"
    /\ Return(regret_k_insertion(call.state))

Apply2opt ==
    /\ call.fn = "apply_2opt"
    /\ Return(apply_2opt(call.path))

Apply2optStar ==
    /\ call.fn = "apply_2opt_star"
    /\ Return(apply_2opt_star(call.paths))

NextCalls ==
    \/ FindBestChargingStation
    \/ CallGreedyInsertion
    \/ CallRegretKInsertion
    \/ Apply2opt
    \/ Apply2optStar

SpecCalls == InitCalls /\ [][NextCalls]_vars

-----------------------------------------------------------------------------
(* The states that exist at the current point of the ALNS phase: the       *)
(* engine's current and best solutions, the destroy result while it waits  *)
(* for or has just had its repair, and the repair result (after the        *)
(* on-best local search: the rewritten candidate is then curr and best).   *)

AlnsStarted == pcA \in {"select", "destroyed", "repaired", "done", "crashed"}

AlnsStates ==
    IF ~AlnsStarted THEN {}
    ELSE {curr, best}
         \cup (IF pcA \in {"destroyed", "repaired"} THEN {destroyed} ELSE {})
         \cup (IF pcA = "repaired" /\ cand # None THEN {cand[1]} ELSE {})

\* the nodes of a route strictly between its first and its last node
Interior(nodes) == IF Len(nodes) < 3 THEN <<>> ELSE SubSeq(nodes, 2, Len(nodes) - 1)

\* how often node n occurs in the route interiors and the unassigned list of s
Occurrences(s, n) ==
    LET all == Concat([ k \in DOMAIN s.paths |-> Interior(s.paths[k].nodes) ]) \o s.unassigned
    IN Cardinality({ i \in DOMAIN all : all[i] = n })

Anchored(nodes) ==
    /\ nodes # <<>>
    /\ nodes[1] = DEFAULT_SOURCE_NODE
    /\ Last(nodes) = DEFAULT_SOURCE_NODE

FullyFeasible(s) ==
    /\ s.unassigned = <<>>
    /\ \A k \in DOMAIN s.paths :
          /\ Anchored(s.paths[k].nodes)
          /\ get_total_demand_path(s.paths[k].nodes) <= cevrp.capacity
          /\ MaxSegmentEnergy(s.paths[k].nodes) <= cevrp.energy_capacity

InsertionOperators == {"greedy_insertion", "regret_k_insertion", "best_feasible_insertion"}

-----------------------------------------------------------------------------
(* C1: in every state of the ALNS phase, the destroy result included,      *)
(* every customer occurs exactly once in the routes taken together with    *)
(* the unassigned list.                                                    *)
C1_CustomerUniqueness ==
    \A s \in AlnsStates : \A c \in Customers : Occurrences(s, c) = 1

(* C2: in every state produced during a solve (spliced initial state,      *)
(* destroy results, repair results, states after the on-best local search) *)
(* every route has the depot as its first and as its last node.            *)
C2_DepotAnchored ==
    \A s \in AlnsStates : \A k \in DOMAIN s.paths : Anchored(s.paths[k].nodes)

(* C3: greedy_insertion, regret_k_insertion and best_feasible_insertion    *)
(* return either a fully feasible state (nothing unassigned, every route   *)
(* anchored, within Q, every between-anchor segment within B) or the state *)
(* that was current before the destroy operator ran.                       *)
C3_RepairFeasibleOrPrevious ==
    (pcA = "repaired" /\ r_name \in InsertionOperators) =>
        /\ cand # None
        /\ FullyFeasible(cand[1]) \/ cand[1] = curr

(* C4: for every node sequence calculate_path_energy returns the maximum,  *)
(* over the segments between consecutive anchors, of the segment's summed  *)
(* edge energy; so the result is <= B exactly when no segment exceeds B.   *)
C4_EnergyIsMaxSegment ==
    pcE = "done" =>
        /\ energy_out = MaxSegmentEnergy(nodes_in)
        /\ (energy_out <= cevrp.energy_capacity)
              <=> (MaxSegmentEnergy(nodes_in) <= cevrp.energy_capacity)

(* C5: for every route of every state of the ALNS phase the stored         *)
(* feasible flag is true exactly when the route starts and ends at the     *)
(* depot, its demand is within Q and its path energy is within B.          *)
C5_FeasibleFlag ==
    \A s \in AlnsStates : \A k \in DOMAIN s.paths :
        s.paths[k].feasible <=>
            /\ Anchored(s.paths[k].nodes)
            /\ get_total_demand_path(s.paths[k].nodes) <= cevrp.capacity
            /\ calculate_path_energy(s.paths[k].nodes) <= cevrp.energy_capacity

(* C6: for every route of every state of the ALNS phase the stored         *)
(* path_cost, demand and energy equal their recomputation from the node    *)
(* sequence (the energy with its resets at stations).                      *)
C6_StoredAttributes ==
    \A s \in AlnsStates : \A k \in DOMAIN s.paths :
        /\ s.paths[k].path_cost = calculate_path_cost(s.paths[k].nodes)
        /\ s.paths[k].demand = get_total_demand_path(s.paths[k].nodes)
        /\ s.paths[k].energy = calculate_path_energy(s.paths[k].nodes)


-----------------------------------------------------------------------------
(* The MMAS phase (SpecMMAS). *)

\* tau_max = 1 / ((1 - rho) * C_best) for the best cost the ACO object holds,
\* and the tau_min the source derives from it
TauMax == calculate_max_phi(evaporation_rate, aco.best_path_cost)

TauMin == calculate_min_phi(TauMax, get_length_graph)

CountOf(s, x) == Cardinality({ i \in DOMAIN s : s[i] = x })

CapacityFeasiblePartition(paths) ==
    /\ \A c \in Customers : CountOf(flatten_path(paths), c) = 1
    /\ \A k \in DOMAIN paths :
          /\ Len(paths[k].nodes) >= 2
          /\ paths[k].nodes[1] = DEFAULT_SOURCE_NODE
          /\ Last(paths[k].nodes) = DEFAULT_SOURCE_NODE
          /\ get_total_demand_path(paths[k].nodes) <= cevrp.capacity

-----------------------------------------------------------------------------
(* The ALNS engine across iterations (SpecALNS). *)

\* C11: from make_alns' call of iterate on, no step raises the objective of
\* the recorded best state, the in-place local search on a new best included.
C11_BestNonIncreasing ==
    [][AlnsStarted => objective(best') <= objective(best)]_vars

\* a new best that the local search rewrote
C11_Witness ==
    /\ pcA = "select"
    /\ iteration > 0
    /\ ls_name # ""
    /\ objective(best) < init_obj

\* C12: two solves of one instance with one seed end with the same route list
\* and the same cost.
C12_SameSeedSameResult ==
    (pcA = "done" /\ twin # None) =>
        /\ [ k \in DOMAIN twin[1].paths |-> twin[1].paths[k].nodes ]
             = [ k \in DOMAIN best.paths |-> best.paths[k].nodes ]
        /\ objective(twin[1]) = objective(best)

\* C13: the state copy() returns has the objective of the state it was called
\* on, and no later write to the copy's route node lists, route attributes or
\* unassigned list changes what the original holds.
C13_CopyIsIndependent ==
    pcC = "copied" =>
        /\ mutations = 0 =>
              objective(Deref(heap, c_ref)) = objective(Deref(heap, s_ref))
        /\ Deref(heap, s_ref) = s_before[1]

\* the copy's routes, stored costs and unassigned list have all been changed
C13_Witness ==
    /\ pcC = "copied" /\ mutations = 2
    /\ Deref(heap, c_ref).unassigned # s_before[1].unassigned
    /\ objective(Deref(heap, c_ref)) # objective(Deref(heap, s_ref))
    /\ \E k \in DOMAIN Deref(heap, c_ref).paths :
          Deref(heap, c_ref).paths[k].nodes # s_before[1].paths[k].nodes

\* C14: an operator whose precondition fails does not abort the run: no step
\* of an ALNS iteration leaves iterate with an exception, the engine goes on
\* to select the operators of the next iteration.
C14_OperatorFailureDoesNotAbort ==
    [][(pcA \in { "select", "destroyed", "repaired" } /\ pcA' # pcA)
          => pcA' \in { "select", "destroyed", "repaired", "done" }]_vars

RECURSIVE RecomputedCost(_)
RecomputedCost(paths) ==
    IF paths = <<>> THEN 0
    ELSE calculate_path_cost(Head(paths).nodes) + RecomputedCost(Tail(paths))

-----------------------------------------------------------------------------
(* The functions called on their own (SpecCalls). *)

\* the stations other than last_node that current_energy still reaches
EligibleStations(last_node, current_energy) ==
    { s \in StationSet :
        /\ s # last_node
        /\ current_energy + calculate_edge_energy_consumption(last_node, s)
               <= cevrp.energy_capacity }

\* C21: find_best_charging_station returns a cheapest station among those
\* other than last_node that are reachable within B (exactly B included),
\* and returns None exactly when there is no such station.
C21_CheapestReachableStation ==
    (pcF = "done" /\ call.fn = "find_best_charging_station") =>
        /\ ret = NoStation <=> EligibleStations(call.last_node, call.current_energy) = {}
        /\ ret # NoStation =>
              /\ ret \in EligibleStations(call.last_node, call.current_energy)
              /\ \A s \in EligibleStations(call.last_node, call.current_energy) :
                    get_edge_cost(call.last_node, ret) <= get_edge_cost(call.last_node, s)

\* C22: a destroy operator applied to a state whose unassigned list holds
\* only customers returns a state whose unassigned list holds only customers
\* (no charging station, no depot).
C22_UnassignedHoldsCustomers ==
    (pcA = "destroyed" /\ Range(curr.unassigned) \subseteq Customers)
        => Range(destroyed.unassigned) \subseteq Customers

\* the positions where node fits into a route of paths within Q and B
FeasibleInsertions(node, paths) ==
    { o \in Range(InsertionOptions(node, paths, 1)) :
        /\ InsertionFeasible(o)
        /\ MaxSegmentEnergy(o.nodes) <= cevrp.energy_capacity }

\* cost(u,x) + cost(x,v) - cost(u,v) of the insertion o
IncrementalCost(o, paths) == o.cost - calculate_path_cost(paths[o.path_idx].nodes)

\* C23: greedy_insertion puts an unassigned customer at a position of lowest
\* incremental cost among the positions of all routes that keep demand <= Q
\* and energy <= B (stated for the first customer of the list, inserted into
\* the routes as they were handed over).
C23_GreedyLowestIncrement ==
    (/\ pcF = "done" /\ call.fn = "greedy_insertion" /\ Len(call.state.unassigned) = 1
     /\ FeasibleInsertions(call.state.unassigned[1], call.state.paths) # {})
        => /\ ret # None
           /\ \E o \in FeasibleInsertions(call.state.unassigned[1], call.state.paths) :
                 /\ ret[1].paths[o.path_idx].nodes = o.nodes
                 /\ \A p \in FeasibleInsertions(call.state.unassigned[1], call.state.paths) :
                       IncrementalCost(o, call.state.paths)
                          <= IncrementalCost(p, call.state.paths)

\* o is a cheapest member of F, by the cost of the route it gives or by the
\* increase of that cost
CheapestIn(o, F, paths) ==
    \/ \A p \in F : o.cost <= p.cost
    \/ \A p \in F : IncrementalCost(o, paths) <= IncrementalCost(p, paths)

\* C24: a round of regret_k_insertion inserts the unassigned customer of
\* largest regret at its best feasible position, and rounds go on until no
\* customer has a feasible insertion (stated for a single unassigned
\* customer: if it fits anywhere, it is inserted at a cheapest position).
C24_RegretInsertsAtBestPosition ==
    (/\ pcF = "done" /\ call.fn = "regret_k_insertion" /\ Len(call.state.unassigned) = 1
     /\ FeasibleInsertions(call.state.unassigned[1], call.state.paths) # {})
        => /\ ret # None
           /\ \E o \in FeasibleInsertions(call.state.unassigned[1], call.state.paths) :
                 /\ ret[1].paths[o.path_idx].nodes = o.nodes
                 /\ CheapestIn(o, FeasibleInsertions(call.state.unassigned[1], call.state.paths),
                               call.state.paths)

\* C25: a local-search operator changes the node order of a route only when
\* the new order is strictly shorter and the route stays within Q and within
\* B on every segment between two anchors (stated for apply_2opt).
C25_LocalSearchKeepsFeasible ==
    (pcF = "done" /\ call.fn = "apply_2opt" /\ ret.nodes # call.path.nodes)
        => /\ calculate_path_cost(ret.nodes) < calculate_path_cost(call.path.nodes)
           /\ get_total_demand_path(ret.nodes) <= cevrp.capacity
           /\ MaxSegmentEnergy(ret.nodes) <= cevrp.energy_capacity

\* how often customer c is visited by the routes of paths
CustomerCount(paths, c) ==
    Cardinality({ p \in { <<k, i>> : k \in DOMAIN paths, i \in 1..MaxLen } :
                    p[2] \in DOMAIN paths[p[1]].nodes /\ paths[p[1]].nodes[p[2]] = c })

\* C26: apply_2opt_star returns routes that start and end at the depot, have
\* no depot in between, and visit the customers of its input, each as often
\* as the input did.
C26_TwoOptStarKeepsAnchoring ==
    (pcF = "done" /\ call.fn = "apply_2opt_star")
        => /\ ret.raises = ""
           /\ \A k \in DOMAIN ret.paths : RouteShaped(ret.paths[k].nodes)
           /\ \A c \in Customers : CustomerCount(ret.paths, c) = CustomerCount(call.paths, c)

\* C27: when a destroy or repair operator has returned, the state it was
\* called on holds what it held before the call: the node sequence and the
\* stored cost, demand, energy and flag of every route, and the unassigned list.
C27_OperatorsLeaveInputUnchanged ==
    pcC = "returned" => Deref(heap, s_ref) = s_before[1]

\* an operator has written to the unassigned list of its copy and returned a
\* state
C27_Witness ==
    /\ pcC = "returned" /\ ret # 0
    /\ Deref(heap, c_ref).unassigned # s_before[1].unassigned
    /\ Deref(heap, ret).paths # s_before[1].paths

\* C28: once the deadline has passed at the end of an iteration, the phase
\* starts no further iteration: the MMAS loop goes to its return, and the
\* ALNS loop ends instead of selecting the operators of another iteration.
C28_NoIterationAfterDeadline ==
    [][/\ (pcM = "found" /\ expired') => pcM' = "return"
       /\ (pcA = "select" /\ iteration >= 1 /\ expired) => pcA' = "done"]_vars

\* C29: with the operators solve_with_alns registers, a repair operator never
\* returns None: when it falls back to state.previous_state, the state it
\* was given has one.
C29_RepairNeverReturnsNone ==
    (/\ pcA = "repaired"
     /\ destroy_operators = MainOperators.destroy
     /\ repair_operators = MainOperators.repair)
        => cand # None

\* a repair operator of solve_with_alns could not place every customer and
\* fell back to the previous state of the state it was given
C29_Witness ==
    /\ pcA = "repaired"
    /\ destroy_operators = MainOperators.destroy
    /\ repair_operators = MainOperators.repair
    /\ destroyed.unassigned # <<>>
    /\ destroyed.previous_state # None
    /\ cand = destroyed.previous_state

=============================================================================
